---- MODULE Spec2Model ----
(***************************************************************************)
(* Model of local-clawendar's recurrence engine (src/lib/recurrence.js).   *)
(*                                                                         *)
(* An absolute instant (a JS Date) is an integer number of whole seconds   *)
(* since 1970-01-01T00:00:00Z; every string the engine reads or writes has *)
(* whole seconds, and every offset it can parse is a whole number of       *)
(* minutes, so no sub-second value ever arises.                            *)
(*                                                                         *)
(* An offset-qualified string "YYYY-MM-DDTHH:MM:SS+HH:MM" is a record of   *)
(* its characters' fields: two such strings are equal exactly when the     *)
(* records are equal.  A string that is not of that form carries its text  *)
(* in the field raw.                                                       *)
(***************************************************************************)
EXTENDS Integers, Sequences, FiniteSets, TLC

VARIABLES
  call,      \* the arguments of the expandOccurrences call under study
  ret,       \* what that call produced: a list, or the error it threw
  pc,        \* "ready" before the call, "done" after it
  dtfCache,  \* recurrence.js:354, timezone -> the zone of its cached formatter
  probe,     \* the civil time / instant handed to the local-UTC conversion
  resolved,  \* what the conversion produced
  events,    \* storage.js: the event list persisted in events.json
  uuid,      \* how many ids randomUUID has handed out
  request,   \* the calendar call made last, with its arguments
  response,  \* what that call returned or threw
  skipped,   \* history: the skips that returned, of the series still stored
  procs      \* the processes at work on events.json, each with the list it read

vars ==
  <<call, ret, pc, dtfCache, probe, resolved, events, uuid, request, response, skipped,
    procs>>

\* One process alone works on the data directory.
NoProcs == <<>>


----------------------------------------------------------------------------
(* Calendar arithmetic of the JS Date object (proleptic Gregorian, UTC).   *)

SecPerMin == 60
SecPerDay == 86400

\* Days from 1970-01-01 to the civil date y-m-d: Date.UTC(y, m - 1, d) / 86400000.
DaysFromCivil(y, m, d) ==
  LET yy  == IF m <= 2 THEN y - 1 ELSE y
      era == yy \div 400
      yoe == yy - era * 400
      mp  == IF m > 2 THEN m - 3 ELSE m + 9
      doy == (153 * mp + 2) \div 5 + d - 1
      doe == yoe * 365 + yoe \div 4 - yoe \div 100 + doy
  IN  era * 146097 + doe - 719468

\* The civil date that is day doy (0 = 1 March) of the year starting in March
\* of year y.
CivilFromDayOfYear(y, doy) ==
  LET mp == (5 * doy + 2) \div 153
  IN  [year  |-> y + (IF mp < 10 THEN 0 ELSE 1),
       month |-> IF mp < 10 THEN mp + 3 ELSE mp - 9,
       day   |-> doy - (153 * mp + 2) \div 5 + 1]

\* The civil date that is day doe of the 400-year era number era.
CivilFromDayOfEra(era, doe) ==
  LET yoe == (doe - doe \div 1460 + doe \div 36524 - doe \div 146096) \div 365
  IN  CivilFromDayOfYear(yoe + era * 400,
                         doe - (365 * yoe + yoe \div 4 - yoe \div 100))

\* The civil date of day number n: getUTCFullYear / getUTCMonth + 1 / getUTCDate.
CivilFromDays(n) ==
  CivilFromDayOfEra((n + 719468) \div 146097, (n + 719468) % 146097)

\* Date.UTC(year, month - 1, day, hour, minute, second), in seconds.
DateUTC(l) ==
  DaysFromCivil(l.year, l.month, l.day) * SecPerDay
    + l.hour * 3600 + l.minute * SecPerMin + l.second

\* The six UTC fields of an instant.
UtcFieldsOf(c, s) ==
  [year |-> c.year, month |-> c.month, day |-> c.day,
   hour |-> s \div 3600, minute |-> (s % 3600) \div SecPerMin,
   second |-> s % SecPerMin]

UtcFields(t) == UtcFieldsOf(CivilFromDays(t \div SecPerDay), t % SecPerDay)

DaysInMonthOf(y, m) ==
  IF m = 12 THEN 31
  ELSE DaysFromCivil(y, m + 1, 1) - DaysFromCivil(y, m, 1)

----------------------------------------------------------------------------
(* The timezone database behind Intl.DateTimeFormat: the UTC offset, in     *)
(* minutes, in force in a zone at an instant.  Rules as in force in 2026.   *)

\* The day number of the last Sunday on or before the civil date y-m-d.
SundayOnOrBefore(y, m, d) ==
  LET n == DaysFromCivil(y, m, d)
  IN  n - ((n + 4) % 7)

\* The day number of the first Sunday on or after the civil date y-m-d.
SundayOnOrAfter(y, m, d) ==
  LET n == DaysFromCivil(y, m, d)
  IN  n + ((7 - ((n + 4) % 7)) % 7)

Zones ==
  {"Europe/Warsaw", "America/New_York", "Australia/Lord_Howe", "Pacific/Apia", "UTC"}

\* The instants of year y at which the offset of zone tz changes, and the
\* offsets (minutes east of UTC) inside and outside [first, second).
ZoneRule(tz, y) ==
  CASE tz = "Europe/Warsaw" ->
         \* CEST from the last Sunday of March to the last Sunday of October,
         \* both at 01:00 UTC; CET otherwise
         [first  |-> SundayOnOrBefore(y, 3, 31) * SecPerDay + 3600,
          second |-> SundayOnOrBefore(y, 10, 31) * SecPerDay + 3600,
          inside |-> 120, outside |-> 60]
    [] tz = "America/New_York" ->
         \* EDT from the second Sunday of March, 07:00 UTC, to the first Sunday
         \* of November, 06:00 UTC; EST otherwise
         [first  |-> SundayOnOrAfter(y, 3, 8) * SecPerDay + 7 * 3600,
          second |-> SundayOnOrAfter(y, 11, 1) * SecPerDay + 6 * 3600,
          inside |-> -240, outside |-> -300]
    [] tz = "Australia/Lord_Howe" ->
         \* +10:30 from the first Sunday of April (Saturday 15:00 UTC) to the
         \* first Sunday of October (Saturday 15:30 UTC); +11:00 otherwise: a
         \* half-hour shift
         [first  |-> (SundayOnOrAfter(y, 4, 1) - 1) * SecPerDay + 15 * 3600,
          second |-> (SundayOnOrAfter(y, 10, 1) - 1) * SecPerDay + 15 * 3600 + 1800,
          inside |-> 630, outside |-> 660]
    [] tz = "Pacific/Apia" ->
         \* the change of the date line: 2011-12-30 did not happen.  -10:00 up to
         \* 2011-12-30T10:00:00Z, +14:00 from then on; the zone is only used
         \* within days of that instant
         [first  |-> DaysFromCivil(2011, 12, 30) * SecPerDay + 10 * 3600,
          second |-> DaysFromCivil(2038, 1, 1) * SecPerDay,
          inside |-> 840, outside |-> -600]
    [] OTHER ->
         [first |-> 0, second |-> 0, inside |-> 0, outside |-> 0]

\* The offset rule r gives at instant t.
OffsetUnder(r, t) == IF t >= r.first /\ t < r.second THEN r.inside ELSE r.outside

\* The offset of zone tz at instant t, in minutes east of UTC.
TzOffsetMinutes(tz, t) ==
  OffsetUnder(ZoneRule(tz, IF tz = "Pacific/Apia" THEN 2011
                           ELSE CivilFromDays(t \div SecPerDay).year), t)

\* timeZoneName: "longOffset" renders a zero offset as the bare text "GMT"
\* and any other as "GMT+hh:mm" / "GMT-hh:mm".
LongOffsetName(off) ==
  LET abs == IF off < 0 THEN 0 - off ELSE off
  IN  [bare |-> off = 0,
       sign |-> IF off < 0 THEN "-" ELSE "+",
       hh   |-> abs \div 60,
       mm   |-> abs % 60]

\* parseOffsetMinutes: the pattern needs a sign after "GMT"; bare "GMT" throws.
parseOffsetMinutes(name) ==
  IF name.bare
  THEN [ok |-> FALSE, minutes |-> 0]
  ELSE [ok |-> TRUE,
        minutes |-> (IF name.sign = "+" THEN 1 ELSE -1) * (name.hh * 60 + name.mm)]

\* dtfCache: the zone of the formatter stored under each key.  No key at first.
NoFormatters == [z \in {} |-> z]

\* A lookup that returns a formatter the cache holds, whatever the key.
FormatterAnyKey(cache, tz) ==
  IF DOMAIN cache # {} THEN cache[CHOOSE z \in DOMAIN cache : TRUE] ELSE tz

\* let dtf = dtfCache.get(tz); if (!dtf) dtf = new Intl.DateTimeFormat("en-CA",
\* {timeZone: tz, ...}): the zone of the formatter getZonedParts formats with.
Formatter(cache, tz) == IF tz \in DOMAIN cache THEN cache[tz] ELSE tz

\* dtfCache after getZonedParts has run for the zones of a set: a zone not
\* yet a key is set to a formatter of that zone, a key is left as it is.
Cached(cache, zones) ==
  [z \in DOMAIN cache \cup zones |-> IF z \in DOMAIN cache THEN cache[z] ELSE z]

NoParts ==
  [ok |-> FALSE, year |-> 0, month |-> 0, day |-> 0, hour |-> 0, minute |-> 0,
   second |-> 0, offsetMinutes |-> 0]

\* getZonedParts(t, tz).offsetMinutes alone.
getZonedOffset(t, tz) == parseOffsetMinutes(LongOffsetName(TzOffsetMinutes(tz, t)))

\* The object getZonedParts returns: the fields f the formatter printed and
\* the offset off parsed out of the zone name it printed.
ZonedParts(off, f) ==
  IF ~off.ok THEN NoParts
  ELSE [ok |-> TRUE, year |-> f.year, month |-> f.month, day |-> f.day,
        hour |-> f.hour, minute |-> f.minute, second |-> f.second,
        offsetMinutes |-> off.minutes]

\* formatToParts(date) where the zone's offset is raw minutes.
ZonedPartsAt(t, raw) ==
  ZonedParts(parseOffsetMinutes(LongOffsetName(raw)), UtcFields(t + raw * SecPerMin))

\* getZonedParts: the civil fields and the offset of instant t in zone tz.
getZonedParts(t, tz) == ZonedPartsAt(t, TzOffsetMinutes(tz, t))

----------------------------------------------------------------------------
(* Offset-qualified strings.                                                *)

\* The string "YYYY-MM-DDTHH:MM:SS+HH:MM" with these fields.
IsoString(l, sign, oh, om) ==
  [type |-> "string", strict |-> TRUE, raw |-> "",
   year |-> l.year, month |-> l.month, day |-> l.day,
   hour |-> l.hour, minute |-> l.minute, second |-> l.second,
   sign |-> sign, oh |-> oh, om |-> om]

\* A string that is not of that form: only its text matters.
RawString(text) ==
  [type |-> "string", strict |-> FALSE, raw |-> text,
   year |-> 0, month |-> 0, day |-> 0, hour |-> 0, minute |-> 0, second |-> 0,
   sign |-> "+", oh |-> 0, om |-> 0]

\* A JS value that is not a string (undefined, a number, ...).
NonString(type) == [RawString("") EXCEPT !.type = type]

Undefined == NonString("undefined")

\* typeof s === "string" && /^\d{4}-\d{2}-\d{2}T\d{2}:\d{2}:\d{2}[+-]\d{2}:\d{2}$/.test(s)
StrictForm(s) == s.type = "string" /\ s.strict

\* JS truthiness of a string or undefined.
Truthy(s) == s.type = "string" /\ (s.strict \/ s.raw # "")

\* new Date(s).getTime() in seconds: NaN (ok = FALSE) when s is not of the
\* strict form or a field is out of range; the strings toISOString writes
\* (raw holds their milliseconds, which are dropped: every instant compared
\* with such a date is a whole second) parse too.  Days past the end of a month and
\* loosely formatted dates parse differently from engine to engine and are kept
\* out of every input set of this model.
Parses(s) ==
  /\ (StrictForm(s) \/ (s.type = "string" /\ s.raw \in {".000", ".999"}))
  /\ s.month \in 1..12 /\ s.day \in 1..DaysInMonthOf(s.year, s.month)
  /\ s.hour \in 0..23 /\ s.minute \in 0..59 /\ s.second \in 0..59
  /\ s.oh \in 0..23 /\ s.om \in 0..59

ParseDate(s) ==
  IF Parses(s)
  THEN [ok |-> TRUE,
        t  |-> DateUTC(s) - (IF s.sign = "+" THEN 1 ELSE -1)
                              * (s.oh * 60 + s.om) * SecPerMin]
  ELSE [ok |-> FALSE, t |-> 0]

\* The string formatIsoInTimeZone builds out of the parts p.
IsoOfParts(p) ==
  LET abs == IF p.offsetMinutes < 0 THEN 0 - p.offsetMinutes ELSE p.offsetMinutes
  IN  IsoString(p, IF p.offsetMinutes >= 0 THEN "+" ELSE "-", abs \div 60, abs % 60)

\* A formatter that takes the zone's offset at the start of the instant's year
\* for every instant of that year.
formatIsoYearOffset(t, tz) ==
  IsoOfParts(ZonedPartsAt(t,
    TzOffsetMinutes(tz, DaysFromCivil(CivilFromDays(t \div SecPerDay).year, 1, 1)
                          * SecPerDay)))

\* formatIsoInTimeZone: instant t rendered in zone tz with the zone's offset.
formatIsoInTimeZone(t, tz) == IsoOfParts(getZonedParts(t, tz))

\* parseLocalDateTime: the six civil fields sliced out of the string.
parseLocalDateTime(s) ==
  [year |-> s.year, month |-> s.month, day |-> s.day,
   hour |-> s.hour, minute |-> s.minute, second |-> s.second]

----------------------------------------------------------------------------
(* Local civil time to absolute instant.                                    *)

\* cmpLocal(a, b) === 0
cmpLocalEqual(a, b) ==
  /\ a.year = b.year /\ a.month = b.month /\ a.day = b.day
  /\ a.hour = b.hour /\ a.minute = b.minute /\ a.second = b.second

addMinutesLocal(local, deltaMinutes) ==
  UtcFields(DateUTC(local) + deltaMinutes * SecPerMin)

\* A JS Set keeps insertion order and drops repeats.
SetAdd(seq, x) ==
  IF \E i \in 1..Len(seq) : seq[i] = x THEN seq ELSE Append(seq, x)

RECURSIVE VerifiedCandidates(_, _, _, _, _)
VerifiedCandidates(local, tz, base, offsets, i) ==
  IF i > Len(offsets) THEN <<>>
  ELSE LET utcCandidate == base - offsets[i] * SecPerMin
           verify       == getZonedParts(utcCandidate, tz)
           rest         == VerifiedCandidates(local, tz, base, offsets, i + 1)
       IN  IF cmpLocalEqual(local, verify) /\ ~(\E j \in 1..Len(rest) : rest[j] = utcCandidate)
           THEN <<utcCandidate>> \o rest
           ELSE rest

\* What findUtcCandidatesForLocal returns once the offsets p0, p1, p2 of the
\* three probes are known: getZonedParts threw, or the verified candidates.
CandidatesFor(local, tz, base, p0, p1, p2) ==
  IF ~(p0.ok /\ p1.ok /\ p2.ok)
  THEN [ok |-> FALSE, candidates |-> <<>>]
  ELSE [ok |-> TRUE,
        candidates |->
          VerifiedCandidates(local, tz, base,
            SetAdd(SetAdd(<<p0.minutes>>, p1.minutes), p2.minutes), 1)]

\* A finder that probes the zone's offset at the naive instant only.
findUtcCandidatesBaseOnly(local, tz) ==
  CandidatesFor(local, tz, DateUTC(local),
                getZonedOffset(DateUTC(local), tz),
                getZonedOffset(DateUTC(local), tz),
                getZonedOffset(DateUTC(local), tz))

\* findUtcCandidatesForLocal: the instants whose civil fields in tz are local,
\* among those the offsets at the naive instant and a day either side give.
findUtcCandidatesForLocal(local, tz) ==
  CandidatesFor(local, tz, DateUTC(local),
                getZonedOffset(DateUTC(local), tz),
                getZonedOffset(DateUTC(local) - SecPerDay, tz),
                getZonedOffset(DateUTC(local) + SecPerDay, tz))

\* candidates.reduce((a, b) => (a < b ? a : b))
RECURSIVE EarliestOf(_)
EarliestOf(candidates) ==
  IF Len(candidates) = 1 THEN candidates[1]
  ELSE LET a == EarliestOf(SubSeq(candidates, 1, Len(candidates) - 1))
           b == candidates[Len(candidates)]
       IN  IF a < b THEN a ELSE b

\* candidates.reduce((a, b) => (a > b ? a : b))
RECURSIVE LatestOf(_)
LatestOf(candidates) ==
  IF Len(candidates) = 1 THEN candidates[1]
  ELSE LET a == LatestOf(SubSeq(candidates, 1, Len(candidates) - 1))
           b == candidates[Len(candidates)]
       IN  IF a > b THEN a ELSE b

GapSearchLimit == 180

Thrown(msg) == [ok |-> FALSE, t |-> 0, err |-> msg]
Instant(t)  == [ok |-> TRUE, t |-> t, err |-> ""]

ErrOffset == "Cannot parse timezone offset"
ErrLocal  == "invalid local datetime for timezone"

\* A pass of the gap loop that returns the first instant found, whatever its
\* minute and second.
GapFoundFirst(local, shifted, found, g) ==
  IF ~found.ok
  THEN [g EXCEPT !.done = TRUE, !.result = Thrown(ErrOffset)]
  ELSE IF Len(found.candidates) = 0 THEN g
  ELSE [g EXCEPT !.done = TRUE, !.result = Instant(LatestOf(found.candidates))]

\* One pass of the gap loop of resolveLocalToUtc once the shifted civil time
\* and the instants found for it are known.  g.done says the loop has returned
\* or thrown (g.result); g.fallback is the first instant found so far (ok =
\* FALSE while there is none).
GapFound(local, shifted, found, g) ==
  IF ~found.ok
  THEN [g EXCEPT !.done = TRUE, !.result = Thrown(ErrOffset)]
  ELSE IF Len(found.candidates) = 0 THEN g
  ELSE IF shifted.minute = local.minute /\ shifted.second = local.second
       THEN [g EXCEPT !.done = TRUE, !.result = Instant(LatestOf(found.candidates))]
       ELSE [g EXCEPT !.fallback = IF @.ok THEN @
                                   ELSE Instant(LatestOf(found.candidates))]

\* The pass of the gap loop at minute shift.
GapStep(local, tz, shift, g) ==
  GapFound(local, addMinutesLocal(local, shift),
           findUtcCandidatesForLocal(addMinutesLocal(local, shift), tz), g)

\* for (shift = lo; shift <= hi; shift++) GapStep, stopping once g.done.  The
\* range is halved so that the evaluation depth stays logarithmic.
RECURSIVE GapLoop(_, _, _, _, _)
GapLoop(local, tz, lo, hi, g) ==
  IF g.done \/ lo > hi THEN g
  ELSE IF lo = hi THEN GapStep(local, tz, lo, g)
  ELSE LET mid  == (lo + hi) \div 2
           left == GapLoop(local, tz, lo, mid, g)
       IN  GapLoop(local, tz, mid + 1, hi, left)

\* What resolveLocalToUtc does after the gap loop g: the loop returned or
\* threw, or the fallback is returned, or there is none.
AfterGapLoop(g) ==
  IF g.done THEN g.result
  ELSE IF g.fallback.ok THEN g.fallback
  ELSE Thrown(ErrLocal)

\* What resolveLocalToUtc does with the candidates found for local itself.
Resolved(local, tz, found) ==
  IF ~found.ok THEN Thrown(ErrOffset)
  ELSE IF Len(found.candidates) > 0 THEN Instant(LatestOf(found.candidates))
  ELSE AfterGapLoop(GapLoop(local, tz, 1, GapSearchLimit,
                            [done |-> FALSE, result |-> Thrown(ErrLocal),
                             fallback |-> Thrown(ErrLocal)]))

\* resolveLocalToUtc: the instant of civil time local in zone tz.
resolveLocalToUtc(local, tz) ==
  Resolved(local, tz, findUtcCandidatesForLocal(local, tz))

----------------------------------------------------------------------------
(* The rule parser.  A rule string is the list of its ";"-separated parts;  *)
(* a part is its key (the text before the first "=", trimmed, upper-cased), *)
(* whether it has an "=" at all, and its value (the text after it, trimmed).*)

WEEKDAY_TO_INDEX ==
  [SU |-> 0, MO |-> 1, TU |-> 2, WE |-> 3, TH |-> 4, FR |-> 5, SA |-> 6]

SUPPORTED_KEYS == {"FREQ", "INTERVAL", "BYDAY", "BYSETPOS", "COUNT", "UNTIL"}

Part(key, value) == [key |-> key, eq |-> TRUE, value |-> value]
BarePart(key)    == [key |-> key, eq |-> FALSE, value |-> RawString("")]

RuleString(parts) == [type |-> "string", parts |-> parts]

\* Number(text) for the numerals of this model: a decimal digit with an
\* optional minus sign, or the empty text (0); anything else is NaN.
Digits == <<"0", "1", "2", "3", "4", "5", "6", "7", "8", "9">>
Negatives == <<"-0", "-1", "-2", "-3", "-4", "-5", "-6", "-7", "-8", "-9">>

NumberOf(s) ==
  IF s.strict THEN [int |-> FALSE, n |-> 0]
  ELSE IF s.raw = "" THEN [int |-> TRUE, n |-> 0]
  ELSE IF \E i \in 1..10 : Digits[i] = s.raw
       THEN [int |-> TRUE, n |-> (CHOOSE i \in 1..10 : Digits[i] = s.raw) - 1]
  ELSE IF \E i \in 1..10 : Negatives[i] = s.raw
       THEN [int |-> TRUE, n |-> 1 - (CHOOSE i \in 1..10 : Negatives[i] = s.raw)]
  ELSE [int |-> FALSE, n |-> 0]

\* text.split(",").map(trim, upper).filter(Boolean) for the BYDAY texts of
\* this model: one or two codes.
ByDayList(s) ==
  CASE s.raw = "MO,WE" -> <<"MO", "WE">>
    [] s.raw = "TU,TH" -> <<"TU", "TH">>
    [] s.raw = "SA,SU" -> <<"SA", "SU">>
    [] s.raw = ","     -> <<>>
    [] OTHER           -> <<s.raw>>

\* out[key] after the loop over the parts: the value of the last part with
\* that key, or undefined.
OutOf(parts, key) ==
  LET at == {i \in 1..Len(parts) : parts[i].key = key}
  IN  IF at = {} THEN Undefined
      ELSE parts[CHOOSE i \in at : \A j \in at : j <= i].value

NoRule ==
  [ok |-> FALSE, err |-> "", freq |-> "", interval |-> 0, byday |-> <<>>,
   hasBysetpos |-> FALSE, bysetpos |-> 0, hasCount |-> FALSE, count |-> 0,
   until |-> Undefined]

RuleError(msg) == [NoRule EXCEPT !.err = msg]

Rule(FREQ, INTERVAL, BYDAY, BYSETPOS, COUNT, UNTIL) ==
  LET interval == IF Truthy(INTERVAL) THEN NumberOf(INTERVAL) ELSE [int |-> TRUE, n |-> 1]
      byday    == IF Truthy(BYDAY) THEN ByDayList(BYDAY) ELSE <<>>
  IN  IF ~Truthy(FREQ) \/ FREQ.strict \/ FREQ.raw \notin {"WEEKLY", "MONTHLY"}
      THEN RuleError("unsupported or invalid FREQ")
      ELSE IF ~interval.int \/ interval.n < 1 THEN RuleError("invalid INTERVAL")
      ELSE IF \E i \in 1..Len(byday) : byday[i] \notin DOMAIN WEEKDAY_TO_INDEX
           THEN RuleError("invalid BYDAY")
      ELSE IF BYSETPOS.type = "string"
                /\ (~NumberOf(BYSETPOS).int \/ NumberOf(BYSETPOS).n = 0)
           THEN RuleError("invalid BYSETPOS")
      ELSE IF COUNT.type = "string" /\ (~NumberOf(COUNT).int \/ NumberOf(COUNT).n < 1)
           THEN RuleError("invalid COUNT")
      ELSE [ok |-> TRUE, err |-> "", freq |-> FREQ.raw, interval |-> interval.n,
            byday |-> byday,
            hasBysetpos |-> BYSETPOS.type = "string", bysetpos |-> NumberOf(BYSETPOS).n,
            hasCount |-> COUNT.type = "string", count |-> NumberOf(COUNT).n,
            until |-> UNTIL]

\* The parts the loop over the pairs throws on: no key, no "=", or a key that
\* is not supported.
BadParts(parts) ==
  {i \in 1..Len(parts) :
     \/ parts[i].key = "" \/ ~parts[i].eq
     \/ parts[i].key \notin SUPPORTED_KEYS}

\* The throw of the loop over the pairs at the first of the bad parts.
FirstBadPart(parts, bad) ==
  LET firstBad == CHOOSE i \in bad : \A j \in bad : i <= j
  IN  IF parts[firstBad].key = "" \/ ~parts[firstBad].eq
      THEN RuleError("invalid rrule")
      ELSE RuleError("unsupported rrule field")

parseRRule(rrule) ==
  IF rrule.type # "string" \/ Len(rrule.parts) = 0 THEN RuleError("invalid rrule")
  ELSE IF BadParts(rrule.parts) # {}
       THEN FirstBadPart(rrule.parts, BadParts(rrule.parts))
  ELSE Rule(OutOf(rrule.parts, "FREQ"), OutOf(rrule.parts, "INTERVAL"),
            OutOf(rrule.parts, "BYDAY"), OutOf(rrule.parts, "BYSETPOS"),
            OutOf(rrule.parts, "COUNT"), OutOf(rrule.parts, "UNTIL"))

----------------------------------------------------------------------------
(* Civil-date helpers of the generator.                                     *)

addDaysLocal(localDate, days) ==
  CivilFromDays(DaysFromCivil(localDate.year, localDate.month, localDate.day) + days)

\* getUTCDay(): 0 = Sunday; 1970-01-01 was a Thursday.
weekdayIndexFromLocalDate(localDate) ==
  (DaysFromCivil(localDate.year, localDate.month, localDate.day) + 4) % 7

daysBetweenLocal(a, b) ==
  DaysFromCivil(b.year, b.month, b.day) - DaysFromCivil(a.year, a.month, a.day)

monthDiff(a, b) == (b.year - a.year) * 12 + (b.month - a.month)

\* The set as the ascending list of its members.
RECURSIVE AscendingList(_)
AscendingList(S) ==
  IF S = {} THEN <<>>
  ELSE LET m == CHOOSE x \in S : \A y \in S : x <= y
       IN  <<m>> \o AscendingList(S \ {m})

\* The days of the month monthDate on a weekday of rule.byday (any day when
\* that is empty).
MonthDays(monthDate, rule) ==
  {d \in 1..DaysInMonthOf(monthDate.year, monthDate.month) :
     \/ Len(rule.byday) = 0
     \/ \E i \in 1..Len(rule.byday) :
          WEEKDAY_TO_INDEX[rule.byday[i]] =
            weekdayIndexFromLocalDate(
              [year |-> monthDate.year, month |-> monthDate.month, day |-> d])}

\* The dates of the days list of the month monthDate.
DatesOf(monthDate, list) ==
  [i \in 1..Len(list) |->
     [year |-> monthDate.year, month |-> monthDate.month, day |-> list[i]]]

\* The candidates in reverse.
Reversed(candidates) ==
  [i \in 1..Len(candidates) |-> candidates[Len(candidates) + 1 - i]]

\* The days of the month whose weekday is in byday, latest first, BYSETPOS
\* left aside.
getMonthlyCandidatesLatestFirst(monthDate, rule) ==
  Reversed(DatesOf(monthDate, AscendingList(MonthDays(monthDate, rule))))

\* A selection that counts a negative BYSETPOS from the start as well.
BySetPosFromStart(candidates, rule) ==
  LET idx == IF rule.bysetpos > 0 THEN rule.bysetpos - 1 ELSE (0 - rule.bysetpos) - 1
  IN  IF ~rule.hasBysetpos THEN candidates
      ELSE IF idx < 0 \/ idx >= Len(candidates) THEN <<>>
      ELSE <<candidates[idx + 1]>>

\* The part of getMonthlyCandidates after the walk over the month: every
\* candidate, or the one BYSETPOS picks, or none.
BySetPos(candidates, rule) ==
  LET idx == IF rule.bysetpos > 0 THEN rule.bysetpos - 1
             ELSE Len(candidates) + rule.bysetpos
  IN  IF ~rule.hasBysetpos THEN candidates
      ELSE IF idx < 0 \/ idx >= Len(candidates) THEN <<>>
      ELSE <<candidates[idx + 1]>>

\* getMonthlyCandidates: the days of the month whose weekday is in byday, in
\* ascending order, or the one BYSETPOS picks.
getMonthlyCandidates(monthDate, rule) ==
  BySetPos(DatesOf(monthDate, AscendingList(MonthDays(monthDate, rule))), rule)

----------------------------------------------------------------------------
(* expandOccurrences.                                                       *)

WeeklyCeiling  == 3660
MonthlyCeiling == 240

\* What a call leaves: the list returned or the error thrown, and the zones
\* whose formatter it put in dtfCache.
Returned(list) == [ok |-> TRUE, err |-> "", out |-> list, cached |-> {}]
Failed(msg)    == [ok |-> FALSE, err |-> msg, out |-> <<>>, cached |-> {}]

\* utcDate < dtStartDate, with the anchor excluded as well.
AtOrBeforeAnchor(c, t) == t <= c.dtStartDate

\* utcDate < dtStartDate: the candidate is passed over, uncounted.
BeforeAnchor(c, t) == t < c.dtStartDate

\* The COUNT test made before generatedCount is incremented.
CountExceededLate(c, n) == c.rule.hasCount /\ n > c.rule.count + 1

\* rule.count !== undefined && generatedCount > rule.count, n being
\* generatedCount after its increment.
CountExceeded(c, n) == c.rule.hasCount /\ n > c.rule.count

\* The range test without its upper end.
InRangeOpenEnded(c, t) == t >= c.fromDate

\* utcDate >= fromDate && utcDate <= toDate
InRange(c, t) == t >= c.fromDate /\ t <= c.toDate

\* An exception test that compares instants rather than strings.
ExceptedByInstant(c, iso) ==
  \E e \in c.exSet : ParseDate(e).t = ParseDate(iso).t

\* exSet.has(iso): a Set of strings compares by string equality.
Excepted(c, iso) == iso \in c.exSet

\* if (!exSet.has(iso)) results.push(iso)
Pushed(c, iso, results) == IF Excepted(c, iso) THEN results ELSE Append(results, iso)

\* What one candidate does to the running state of either loop once its
\* civil time is converted (utcDate), up to the push onto results.  st.stop is
\* a break (WEEKLY) or a return (MONTHLY); st.err a throw; st.zoned says
\* getZonedParts has run, which leaves the zone's formatter in dtfCache.
Converted(c, utcDate, st) ==
  LET n == st.generatedCount + 1
  IN  IF ~utcDate.ok THEN [st EXCEPT !.stop = TRUE, !.err = utcDate.err, !.zoned = TRUE]
      ELSE IF BeforeAnchor(c, utcDate.t) THEN [st EXCEPT !.zoned = TRUE]
      ELSE IF c.hasUntil /\ utcDate.t > c.untilDate
           THEN [st EXCEPT !.stop = TRUE, !.zoned = TRUE]
      ELSE IF CountExceeded(c, n)
           THEN [st EXCEPT !.generatedCount = n, !.stop = TRUE, !.zoned = TRUE]
      ELSE [st EXCEPT
              !.zoned = TRUE,
              !.generatedCount = n,
              !.results = IF InRange(c, utcDate.t)
                          THEN Pushed(c, formatIsoInTimeZone(utcDate.t, c.tz), @)
                          ELSE @,
              !.past = utcDate.t > c.toDate]

\* The candidate on candidateDate: the date with the anchor's time of day,
\* converted by resolveLocalToUtc.
Candidate(c, candidateDate, st) ==
  Converted(c,
            resolveLocalToUtc(
              [year |-> candidateDate.year, month |-> candidateDate.month,
               day |-> candidateDate.day, hour |-> c.startLocal.hour,
               minute |-> c.startLocal.minute, second |-> c.startLocal.second],
              c.tz),
            st)

\* if (utcDate > toDate && rule.count === undefined) break, after a candidate.
BreakIfPast(c, after) ==
  IF after.past /\ ~c.rule.hasCount THEN [after EXCEPT !.stop = TRUE] ELSE after

\* A loop body that takes every week, whatever the interval.
WeeklyDateEveryWeek(c, candidateDate, st) ==
  IF weekdayIndexFromLocalDate(candidateDate) \notin c.bydaySet THEN st
  ELSE BreakIfPast(c, Candidate(c, candidateDate, [st EXCEPT !.past = FALSE]))

\* The body of the WEEKLY loop for the civil date candidateDate.
WeeklyDate(c, candidateDate, st) ==
  IF weekdayIndexFromLocalDate(candidateDate) \notin c.bydaySet THEN st
  ELSE IF \/ daysBetweenLocal(c.startDateLocal, candidateDate) \div 7 < 0
          \/ (daysBetweenLocal(c.startDateLocal, candidateDate) \div 7)
               % c.rule.interval # 0
       THEN st
  ELSE BreakIfPast(c, Candidate(c, candidateDate, [st EXCEPT !.past = FALSE]))

\* The body of the WEEKLY loop at dayOffset.
WeeklyStep(c, dayOffset, st) ==
  WeeklyDate(c, addDaysLocal(c.startDateLocal, dayOffset), st)

\* for (dayOffset = lo; dayOffset <= hi; dayOffset++) WeeklyStep, until a break
\* or a throw.  The range is halved so that the evaluation depth stays
\* logarithmic.
RECURSIVE WeeklyLoop(_, _, _, _)
WeeklyLoop(c, lo, hi, st) ==
  IF st.stop \/ lo > hi THEN st
  ELSE IF lo = hi THEN WeeklyStep(c, lo, st)
  ELSE LET mid  == (lo + hi) \div 2
           left == WeeklyLoop(c, lo, mid, st)
       IN  WeeklyLoop(c, mid + 1, hi, left)

\* for (const d of dayCandidates) Candidate, until a return or a throw.
RECURSIVE MonthDaysLoop(_, _, _, _, _)
MonthDaysLoop(c, dayCandidates, lo, hi, st) ==
  IF st.stop \/ lo > hi THEN st
  ELSE IF lo = hi THEN Candidate(c, dayCandidates[lo], st)
  ELSE LET mid  == (lo + hi) \div 2
           left == MonthDaysLoop(c, dayCandidates, lo, mid, st)
       IN  MonthDaysLoop(c, dayCandidates, mid + 1, hi, left)

\* The names of the weekday indices, as the MONTHLY branch hands them to
\* getMonthlyCandidates.
bydayNames(bydayIndices) ==
  [i \in 1..Len(bydayIndices) |->
     CHOOSE k \in DOMAIN WEEKDAY_TO_INDEX : WEEKDAY_TO_INDEX[k] = bydayIndices[i]]

\* if (new Date(Date.UTC(year, month, 1)) > toDate && rule.count === undefined)
\* break, after the days of a month: month is 1-based here, so the date is the
\* first of the month after.
BreakIfMonthPast(c, year, month, after) ==
  IF after.stop THEN after
  ELSE IF /\ (IF month = 12 THEN DaysFromCivil(year + 1, 1, 1)
              ELSE DaysFromCivil(year, month + 1, 1)) * SecPerDay > c.toDate
          /\ ~c.rule.hasCount
       THEN [after EXCEPT !.stop = TRUE]
  ELSE after

\* The body of the MONTHLY loop for a month and its dayCandidates.
MonthlyMonth(c, year, month, dayCandidates, st) ==
  BreakIfMonthPast(c, year, month,
                   MonthDaysLoop(c, dayCandidates, 1, Len(dayCandidates), st))

\* The body of the MONTHLY loop at totalMonth months from the January of the
\* anchor's year.
MonthlyTotal(c, totalMonth, st) ==
  MonthlyMonth(c, c.startDateLocal.year + totalMonth \div 12, (totalMonth % 12) + 1,
               getMonthlyCandidates(
                 [year  |-> c.startDateLocal.year + totalMonth \div 12,
                  month |-> (totalMonth % 12) + 1],
                 [c.rule EXCEPT !.byday = bydayNames(c.bydayIndices)]),
               st)

\* The body of the MONTHLY loop at monthOffset.
MonthlyStep(c, monthOffset, st) ==
  MonthlyTotal(c, (c.startDateLocal.month - 1) + monthOffset, st)

\* for (j = lo; j <= hi; j++) MonthlyStep at monthOffset = start + j * interval.
RECURSIVE MonthlyLoop(_, _, _, _, _)
MonthlyLoop(c, start, lo, hi, st) ==
  IF st.stop \/ lo > hi THEN st
  ELSE IF lo = hi THEN MonthlyStep(c, start + lo * c.rule.interval, st)
  ELSE LET mid  == (lo + hi) \div 2
           left == MonthlyLoop(c, start, lo, mid, st)
       IN  MonthlyLoop(c, start, mid + 1, hi, left)

\* startDayOffset of the WEEKLY branch.
WeeklyStart(c) ==
  LET roughDaysToFrom == (c.fromDate - c.dtStartDate) \div SecPerDay
      periodDays      == 7 * c.rule.interval
      periodsToSkip   == roughDaysToFrom \div periodDays - 2
  IN  IF ~c.rule.hasCount /\ roughDaysToFrom > 0 /\ periodsToSkip > 0
      THEN periodsToSkip * periodDays ELSE 0

\* A startMonthOffset two months short of the window's month, whatever the
\* interval.
MonthlyStartUnaligned(c) ==
  LET f == UtcFields(c.fromDate)
      roughMonthsToFrom == monthDiff(c.startDateLocal, [year |-> f.year, month |-> f.month])
  IN  IF ~c.rule.hasCount /\ roughMonthsToFrom > 2 THEN roughMonthsToFrom - 2 ELSE 0

\* startMonthOffset of the MONTHLY branch.
MonthlyStart(c) ==
  LET f == UtcFields(c.fromDate)
      roughMonthsToFrom == monthDiff(c.startDateLocal, [year |-> f.year, month |-> f.month])
      periodsToSkip     == roughMonthsToFrom \div c.rule.interval - 2
  IN  IF ~c.rule.hasCount /\ roughMonthsToFrom > 0 /\ periodsToSkip > 0
      THEN periodsToSkip * c.rule.interval ELSE 0

\* An exception list accepted without a look at its entries.
exDatesUnchecked(exDates) == FALSE

\* The loop over exDates throws: an entry is not a string, not of the strict
\* form, or not a date.
exDatesInvalid(exDates) ==
  \E i \in 1..Len(exDates) : ~StrictForm(exDates[i]) \/ ~ParseDate(exDates[i]).ok

\* The constants of a call once the rule is parsed: what the loops read.
Context(a, rule) ==
  LET startWeekday == weekdayIndexFromLocalDate(parseLocalDateTime(a.dtStart))
      bydayIndices ==
        IF Len(rule.byday) > 0
        THEN [i \in 1..Len(rule.byday) |-> WEEKDAY_TO_INDEX[rule.byday[i]]]
        ELSE <<startWeekday>>
  IN  [tz |-> a.tz, rule |-> rule,
       startLocal |-> parseLocalDateTime(a.dtStart),
       startDateLocal |->
         [year |-> a.dtStart.year, month |-> a.dtStart.month, day |-> a.dtStart.day],
       dtStartDate |-> ParseDate(a.dtStart).t,
       fromDate |-> ParseDate(a.from).t, toDate |-> ParseDate(a.to).t,
       hasUntil |-> Truthy(rule.until), untilDate |-> ParseDate(rule.until).t,
       bydayIndices |-> bydayIndices,
       bydaySet |-> {bydayIndices[i] : i \in 1..Len(bydayIndices)},
       exSet |-> {a.exDates[i] : i \in 1..Len(a.exDates)}]

\* The state the loops start in.
NoCandidateYet ==
  [stop |-> FALSE, err |-> "", generatedCount |-> 0, results |-> <<>>,
   past |-> FALSE, zoned |-> FALSE]

\* Loops that run up to the ceiling and take it in.
GeneratedThroughCeiling(c) ==
  IF c.rule.freq = "WEEKLY"
  THEN WeeklyLoop(c, WeeklyStart(c), WeeklyCeiling, NoCandidateYet)
  ELSE MonthlyLoop(c, MonthlyStart(c), 0,
                   (MonthlyCeiling - MonthlyStart(c)) \div c.rule.interval,
                   NoCandidateYet)

\* The WEEKLY or the MONTHLY branch, from its first offset to its ceiling.
Generated(c) ==
  IF c.rule.freq = "WEEKLY"
  THEN WeeklyLoop(c, WeeklyStart(c), WeeklyCeiling - 1, NoCandidateYet)
  ELSE MonthlyLoop(c, MonthlyStart(c), 0,
                   (MonthlyCeiling - 1 - MonthlyStart(c)) \div c.rule.interval,
                   NoCandidateYet)

\* What the call leaves when the loops end in state final.
Outcome(tz, final) ==
  [(IF final.err # "" THEN Failed(final.err) ELSE Returned(final.results))
     EXCEPT !.cached = IF final.zoned THEN {tz} ELSE {}]

\* expandOccurrences from the parsed rule on.
Expanded(a, rule) ==
  IF a.mode # "wall" THEN Failed("unsupported mode")
  ELSE IF ~rule.ok THEN Failed(rule.err)
  ELSE IF ~ParseDate(a.from).ok \/ ~ParseDate(a.to).ok THEN Failed("invalid range")
  ELSE IF Truthy(rule.until) /\ ~ParseDate(rule.until).ok THEN Failed("invalid UNTIL")
  ELSE IF exDatesInvalid(a.exDates)
       THEN Failed("invalid exDates: must be strict ISO with offset")
  ELSE Outcome(a.tz, Generated(Context(a, rule)))

\* expandOccurrences({dtStart, tz, rrule, from, to, mode, exDates}).  dtStart
\* is a well-formed offset-qualified string (the calendar validates it).
expandOccurrences(a) == Expanded(a, parseRRule(a.rrule))

----------------------------------------------------------------------------
(* The inputs explored.                                                     *)

MaxInterval  == 2   \* INTERVAL ranges over 1..MaxInterval
MaxCount     == 2   \* COUNT ranges over 1..MaxCount, or is absent
MaxExDates   == 2   \* an exception list holds at most this many entries
MaxFromWeeks == 1   \* a window starts -1..MaxFromWeeks weeks from the anchor
MaxLenWeeks  == 5   \* a window is 1 or MaxLenWeeks weeks long

Local(y, m, d, hh, mi, ss) ==
  [year |-> y, month |-> m, day |-> d, hour |-> hh, minute |-> mi, second |-> ss]

\* The series explored: a timezone and an anchor string.
Series ==
  { \* Sunday 02:30, a week before the spring gap (02:00-03:00 on 29 March)
    <<"Europe/Warsaw", IsoString(Local(2026, 3, 22, 2, 30, 0), "+", 1, 0)>>,
    \* Monday 09:00, the week before the spring change
    <<"Europe/Warsaw", IsoString(Local(2026, 3, 23, 9, 0, 0), "+", 1, 0)>>,
    \* the same civil time written with an offset the zone does not have
    <<"Europe/Warsaw", IsoString(Local(2026, 3, 23, 9, 0, 0), "+", 5, 0)>>,
    \* Sunday 02:30 on the fall-back day itself, first (summer-time) pass
    <<"Europe/Warsaw", IsoString(Local(2026, 10, 25, 2, 30, 0), "+", 2, 0)>>,
    \* Sunday 02:30, a week before the New York gap (8 March)
    <<"America/New_York", IsoString(Local(2026, 3, 1, 2, 30, 0), "-", 5, 0)>>,
    \* Sunday 01:30:15, a week before the New York fold (1 November)
    <<"America/New_York", IsoString(Local(2026, 10, 25, 1, 30, 15), "-", 4, 0)>>,
    \* Sunday 02:15, a week before the Lord Howe half-hour gap (4 October)
    <<"Australia/Lord_Howe", IsoString(Local(2026, 9, 27, 2, 15, 0), "+", 10, 30)>>,
    \* a zone whose offset is zero
    <<"UTC", IsoString(Local(2026, 3, 23, 9, 0, 0), "+", 0, 0)>> }

\* An instant as a string with offset +00:00.
UtcString(t) == IsoString(UtcFields(t), "+", 0, 0)

WeekSeconds == 7 * SecPerDay

Numeral(n) == RawString(Digits[n + 1])

\* The BYDAY parts explored: none, and two pairs of weekdays.
ByDayParts ==
  { <<>>, <<Part("BYDAY", RawString("MO,WE"))>>, <<Part("BYDAY", RawString("SA,SU"))>> }

\* COUNT, or UNTIL (two weeks after the anchor, or a week before it), or neither.
LimitParts(dtStart) ==
  { <<>>,
    <<Part("UNTIL", UtcString(ParseDate(dtStart).t + 2 * WeekSeconds))>>,
    <<Part("UNTIL", UtcString(ParseDate(dtStart).t - WeekSeconds))>> }
  \cup { <<Part("COUNT", Numeral(n))>> : n \in 1..MaxCount }

\* The BYDAY and BYSETPOS parts explored for MONTHLY rules.
MonthlyParts ==
  { <<>>,
    <<Part("BYSETPOS", RawString("2"))>>,
    <<Part("BYDAY", RawString("MO,WE")), Part("BYSETPOS", RawString("-1"))>>,
    <<Part("BYDAY", RawString("SA,SU"))>> }

Rules(dtStart) ==
  { RuleString(<<Part("FREQ", RawString("WEEKLY")), Part("INTERVAL", Numeral(i))>>
                 \o b \o l) :
      i \in 1..MaxInterval, b \in ByDayParts, l \in LimitParts(dtStart) }
  \cup
  { RuleString(<<Part("FREQ", RawString("MONTHLY")), Part("INTERVAL", Numeral(i))>>
                 \o b \o l) :
      i \in 1..MaxInterval, b \in MonthlyParts, l \in LimitParts(dtStart) }
  \cup
  \* the fifth day on the anchor's weekday, from the start and from the end:
  \* a month with four such days has none
  { RuleString(<<Part("FREQ", RawString("MONTHLY")), Part("BYSETPOS", RawString(p))>>) :
      p \in {"5", "-5"} }
  \cup
  { RuleString(<<Part("FREQ", RawString("YEARLY"))>>) }

\* The windows explored for an anchor.
Windows(dtStart) ==
  { <<UtcString(ParseDate(dtStart).t + w * WeekSeconds),
      UtcString(ParseDate(dtStart).t + (w + n) * WeekSeconds)>> :
      w \in -1..MaxFromWeeks, n \in {1, MaxLenWeeks} }

WideWindow(dtStart) ==
  <<UtcString(ParseDate(dtStart).t - WeekSeconds),
    UtcString(ParseDate(dtStart).t + (MaxLenWeeks - 1) * WeekSeconds)>>

\* The exception entries explored for a series: the anchor string, the
\* instant of the anchor's civil time a week later written with offset +00:00
\* (which no zone of Series has at that instant, UTC apart), a string that is
\* not of the strict form, and a number.
ExPool(tz, dtStart) ==
  LET local == parseLocalDateTime(dtStart)
      next  == addDaysLocal(local, 7)
      t     == resolveLocalToUtc(
                 Local(next.year, next.month, next.day,
                       local.hour, local.minute, local.second), tz).t
  IN  << dtStart,
         UtcString(t),
         RawString("2026-03-30 09:00"),
         NonString("number") >>

\* The non-empty lists of at most MaxExDates pool entries, in pool order.
ExLists(tz, dtStart) ==
  LET pool == ExPool(tz, dtStart)
  IN  { [i \in 1..Cardinality(S) |-> pool[AscendingList(S)[i]]] :
          S \in {T \in SUBSET (1..Len(pool)) :
                   Cardinality(T) \in 1..MaxExDates} }

Call(s, r, w, e) ==
  [dtStart |-> s[2], tz |-> s[1], rrule |-> r, from |-> w[1], to |-> w[2],
   mode |-> "wall", exDates |-> e]

\* Every rule in every window without exceptions, and every rule with every
\* exception list in the widest window.
ExpandCalls ==
  UNION { { Call(s, r, w, <<>>) : r \in Rules(s[2]), w \in Windows(s[2]) }
          \cup
          { Call(s, r, WideWindow(s[2]), e) : r \in Rules(s[2]), e \in ExLists(s[1], s[2]) } :
          s \in Series }

----------------------------------------------------------------------------
(* The generator as a state machine: a call is made, then it has returned   *)
(* or thrown.                                                               *)

NoProbe ==
  [tz |-> "UTC", kind |-> "none", t |-> 0, local |-> Local(0, 0, 0, 0, 0, 0),
   iso |-> RawString("")]
NoResult == Failed("pending")

InitExpand ==
  /\ call \in ExpandCalls
  /\ ret = NoResult
  /\ pc = "ready"
  /\ dtfCache = NoFormatters
  /\ probe = NoProbe
  /\ resolved = Thrown("pending") /\ procs = NoProcs
  /\ events = <<>> /\ uuid = 0 /\ request = "none" /\ response = "none"
  /\ skipped = {}

\* One call of expandOccurrences with the arguments in call: every
\* getZonedParts of the call formats with the formatter that dtfCache holds for
\* the call's zone, or with a new one, which it puts there.
ExpandOccurrences ==
  /\ pc = "ready"
  /\ LET r == expandOccurrences([call EXCEPT !.tz = Formatter(dtfCache, call.tz)])
     IN  /\ ret' = [r EXCEPT !.cached = {}]
         /\ dtfCache' = Cached(dtfCache, IF r.cached = {} THEN {} ELSE {call.tz})
  /\ pc' = "done"
  /\ UNCHANGED <<call, probe, resolved, events, uuid, request, response, skipped, procs>>

NextExpand == ExpandOccurrences

SpecExpand == InitExpand /\ [][NextExpand]_vars

----------------------------------------------------------------------------
(* formatIsoInTimeZone and resolveLocalToUtc on their own: an instant is    *)
(* rendered in a zone and the civil fields of the rendering are resolved    *)
(* back, or a civil time is resolved.                                       *)

MaxQuarters == 8   \* probes lie within this many quarter-hours of a change of offset

\* The instants around which a zone is probed: its changes of offset in 2026
\* (for Pacific/Apia the one of 2011; for UTC, which has none, a plain instant).
Transitions(tz) ==
  CASE tz = "Pacific/Apia" -> {ZoneRule(tz, 2011).first}
    [] tz = "UTC"          -> {DaysFromCivil(2026, 3, 29) * SecPerDay + 3600}
    [] OTHER               -> {ZoneRule(tz, 2026).first, ZoneRule(tz, 2026).second}

\* The offsets zone tz has around those instants.
ZoneOffsets(tz) ==
  LET r == ZoneRule(tz, 2026)
  IN  {r.inside, r.outside}

\* Instants on the quarter-hour and 15 seconds past it.
ProbeInstants(tz) ==
  {T + k * 900 + sec :
     T \in Transitions(tz), k \in -MaxQuarters..MaxQuarters, sec \in {0, 15}}

\* The civil times those instants show under either offset of the zone: times
\* that exist once, twice and not at all.
ProbeLocals(tz) ==
  {UtcFields(t + o * SecPerMin) : t \in ProbeInstants(tz), o \in ZoneOffsets(tz)}

Probes ==
  UNION { {[NoProbe EXCEPT !.tz = tz, !.kind = "instant", !.t = t] :
             t \in ProbeInstants(tz)}
          \cup
          {[NoProbe EXCEPT !.tz = tz, !.kind = "local", !.local = l] :
             l \in ProbeLocals(tz)} :
          tz \in Zones }

NoCall ==
  Call(<<"UTC", UtcString(0)>>, RuleString(<<>>), <<UtcString(0), UtcString(0)>>, <<>>)

InitResolve ==
  /\ probe \in Probes
  /\ resolved = Thrown("pending") /\ procs = NoProcs
  /\ pc = "ready"
  /\ dtfCache = NoFormatters
  /\ call = NoCall
  /\ ret = NoResult
  /\ events = <<>> /\ uuid = 0 /\ request = "none" /\ response = "none"
  /\ skipped = {}

\* formatIsoInTimeZone(probe.t, probe.tz), and the civil fields of the string
\* it returns; it throws where getZonedParts does.
FormatInstant ==
  /\ pc = "ready"
  /\ probe.kind = "instant"
  /\ LET p   == getZonedParts(probe.t, probe.tz)
         iso == formatIsoInTimeZone(probe.t, probe.tz)
     IN  IF p.ok
         THEN /\ probe' = [probe EXCEPT !.kind = "formatted", !.iso = iso,
                                        !.local = parseLocalDateTime(iso)]
              /\ pc' = "ready"
         ELSE /\ probe' = probe
              /\ pc' = "threw"
  /\ dtfCache' = Cached(dtfCache, {probe.tz})
  /\ UNCHANGED <<call, ret, resolved, events, uuid, request, response, skipped, procs>>

\* resolveLocalToUtc(probe.local, probe.tz)
ResolveLocal ==
  /\ pc = "ready"
  /\ probe.kind \in {"local", "formatted"}
  /\ resolved' = resolveLocalToUtc(probe.local, probe.tz)
  /\ pc' = "done"
  /\ dtfCache' = Cached(dtfCache, {probe.tz})
  /\ UNCHANGED <<call, ret, probe, events, uuid, request, response, skipped, procs>>

NextResolve == FormatInstant \/ ResolveLocal

SpecResolve == InitResolve /\ [][NextResolve]_vars

----------------------------------------------------------------------------
(* Events (src/lib/event.js).  An event is a record of its fields; a field  *)
(* the object does not have holds undefined, which is also what a round     *)
(* trip through JSON.stringify and JSON.parse makes of an undefined field.  *)

\* An array, and no value at all.
ArrayOf(items) == [kind |-> "array", items |-> items]
NoArray        == [kind |-> "undefined", items |-> <<>>]

\* The rrule field of an event that has none.
NoRuleString == [type |-> "undefined", parts |-> <<>>]

\* The id randomUUID hands out at its n-th call; the id of the occurrence of
\* series id that starts at the string startISO is `${id}#${startISO}`.
EventId(n) == [uuid |-> n, at |-> Undefined]
NoId       == EventId(0)
OccurrenceId(id, startISO) == [uuid |-> id.uuid, at |-> startISO]

\* The event module handles any year of four digits, and the seconds since
\* 1970 of most of them are beyond the integers of the model: its Dates are
\* told by the day since 1970-01-01 and the second of that day.
DayAndSecond(day, seconds) ==
  [day |-> day + seconds \div SecPerDay, second |-> seconds % SecPerDay]

\* (offsetSign === "+" ? 1 : -1) * (offsetH * 60 + offsetM), in seconds.
OffsetSeconds(s) == (IF s.sign = "+" THEN 1 ELSE -1) * (s.oh * 60 + s.om) * SecPerMin

\* new Date(isoString), of a string that parses.
WideDate(s) ==
  DayAndSecond(DaysFromCivil(s.year, s.month, s.day),
               s.hour * 3600 + s.minute * SecPerMin + s.second - OffsetSeconds(s))

\* The getUTC... fields of new Date(d.getTime() + seconds * 1000).
FieldsAfter(d, seconds) ==
  UtcFieldsOf(CivilFromDays(d.day + (d.second + seconds) \div SecPerDay),
              (d.second + seconds) % SecPerDay)

\* a <= b, of two Dates.
NotLater(a, b) == a.day < b.day \/ (a.day = b.day /\ a.second <= b.second)

\* `${yyyy}-${mm}-...`: the year is written without padding, so that the
\* string has the strict form only when the year has four digits.
YearAsWritten(s) ==
  IF s.year \in 1000..9999 THEN s
  ELSE [s EXCEPT !.strict = FALSE, !.raw = "year not of four digits"]

\* isStrictISODateTimeWithOffset: the strict form, an offset within range, a
\* date that parses, and fields that survive the trip through the Date.
isStrictISODateTimeWithOffset(isoString) ==
  /\ StrictForm(isoString)
  /\ isoString.oh <= 23 /\ isoString.om <= 59
  /\ Parses(isoString)
  /\ cmpLocalEqual(FieldsAfter(WideDate(isoString), OffsetSeconds(isoString)), isoString)

\* addHours: the string that many hours later, written with the same offset.
addHours(isoString, hours) ==
  YearAsWritten(
    IsoString(FieldsAfter(WideDate(isoString), hours * 3600 + OffsetSeconds(isoString)),
              isoString.sign, isoString.oh, isoString.om))

\* createEvent: the stored event made of the object obj, with the id given.
createEvent(obj, id) ==
  [id           |-> id,
   seriesId     |-> NoId,
   title        |-> obj.title,
   start        |-> obj.start,
   end          |-> IF obj.end.type # "undefined" THEN obj.end
                    ELSE addHours(obj.start, 1),
   createdAt    |-> RawString("createdAt"),
   place        |-> obj.place,
   participants |-> obj.participants,
   tz           |-> obj.tz,
   rrule        |-> obj.rrule,
   exDates      |-> obj.exDates]

\* errors.push(msg) when cond holds.
ErrorIf(cond, msg) == IF cond THEN <<msg>> ELSE <<>>

\* validateEvent: the errors of the object obj, in the order they are pushed.
validateEvent(obj) ==
  ErrorIf(~Truthy(obj.title), "title is required and must be a non-empty string")
  \o (IF ~Truthy(obj.start) THEN <<"start is required">>
      ELSE ErrorIf(~isStrictISODateTimeWithOffset(obj.start),
                   "start is not a valid date"))
  \o (IF obj.end.type = "undefined" THEN <<>>
      ELSE IF ~isStrictISODateTimeWithOffset(obj.end)
           THEN <<"end must be a valid ISO 8601 datetime with timezone offset">>
      ELSE ErrorIf(/\ Truthy(obj.start)
                   /\ isStrictISODateTimeWithOffset(obj.start)
                   /\ NotLater(WideDate(obj.end), WideDate(obj.start)),
                   "end must be after start"))
  \o ErrorIf(obj.participants.kind \notin {"undefined", "array"},
             "participants must be an array")
  \o ErrorIf(obj.tz.type # "undefined" /\ ~Truthy(obj.tz),
             "tz must be a non-empty string")
  \o ErrorIf(/\ obj.rrule.type # "undefined"
             /\ (obj.rrule.type # "string" \/ Len(obj.rrule.parts) = 0),
             "rrule must be a non-empty string")
  \o ErrorIf(obj.rrule.type # "undefined" /\ ~Truthy(obj.tz),
             "tz is required for recurring events")
  \o ErrorIf(obj.exDates.kind \notin {"undefined", "array"},
             "exDates must be an array")

----------------------------------------------------------------------------
(* The store (src/lib/storage.js): events.json holds the list of events;    *)
(* every operation reads the whole list and, if it changes it, writes the   *)
(* whole list back.                                                         *)

\* An updates object: the keys it has and their values (the other fields of
\* vals are not part of the object).
Updates(keys, vals) == [keys |-> keys, vals |-> vals]

\* Object.assign(target, updates), also { ...target, ...updates }.
Assigned(target, updates) ==
  [id           |-> IF "id" \in updates.keys THEN updates.vals.id ELSE target.id,
   seriesId     |-> target.seriesId,
   title        |-> IF "title" \in updates.keys THEN updates.vals.title ELSE target.title,
   start        |-> IF "start" \in updates.keys THEN updates.vals.start ELSE target.start,
   end          |-> IF "end" \in updates.keys THEN updates.vals.end ELSE target.end,
   createdAt    |-> target.createdAt,
   place        |-> IF "place" \in updates.keys THEN updates.vals.place ELSE target.place,
   participants |-> IF "participants" \in updates.keys THEN updates.vals.participants
                    ELSE target.participants,
   tz           |-> IF "tz" \in updates.keys THEN updates.vals.tz ELSE target.tz,
   rrule        |-> IF "rrule" \in updates.keys THEN updates.vals.rrule ELSE target.rrule,
   exDates      |-> IF "exDates" \in updates.keys THEN updates.vals.exDates
                    ELSE target.exDates]

\* events.findIndex((e) => e.id === eventId), counted from 1; 0 for -1.
findIndex(list, eventId) ==
  IF \E i \in 1..Len(list) : list[i].id = eventId
  THEN CHOOSE i \in 1..Len(list) :
         /\ list[i].id = eventId
         /\ \A j \in 1..(i - 1) : list[j].id # eventId
  ELSE 0

\* storage.save: the list written back.
save(list, event) == Append(list, event)

\* A remove that takes out every event up to and including the one found.
removeUpTo(list, idx) == SubSeq(list, idx + 1, Len(list))

\* storage.remove: events.splice(idx, 1), idx being findIndex's answer (not 0).
removeAt(list, idx) == SubSeq(list, 1, idx - 1) \o SubSeq(list, idx + 1, Len(list))

\* storage.update: Object.assign(events[idx], updates), idx not 0.
updateAt(list, idx, updates) == [list EXCEPT ![idx] = Assigned(@, updates)]

----------------------------------------------------------------------------
(* The calendar (src/lib/calendar.js).                                      *)

\* A Date made of a string; ok = FALSE is the Invalid Date.
DateOf(t) == [ok |-> TRUE, t |-> t]

\* a <= b on Dates: false when either is invalid.
DateLe(a, b) == a.ok /\ b.ok /\ a.t <= b.t

\* overlaps: evStart <= rangeEnd && evEnd >= rangeStart, evEnd being the start
\* for an event without end.
overlaps(event, rangeStart, rangeEnd) ==
  /\ DateLe(ParseDate(event.start), rangeEnd)
  /\ DateLe(rangeStart,
            IF Truthy(event.end) THEN ParseDate(event.end) ELSE ParseDate(event.start))

\* The list with event x put after the last event that does not start after it.
RECURSIVE InsertByStart(_, _)
InsertByStart(sorted, x) ==
  IF Len(sorted) = 0 THEN <<x>>
  ELSE IF ParseDate(sorted[Len(sorted)].start).t <= ParseDate(x.start).t
       THEN Append(sorted, x)
  ELSE Append(InsertByStart(SubSeq(sorted, 1, Len(sorted) - 1), x), sorted[Len(sorted)])

\* A sortByStart that leaves the list as it is.
unsorted(list) == list

\* sortByStart: events.sort((a, b) => new Date(a.start) - new Date(b.start)),
\* a stable sort by start instant.
RECURSIVE sortByStart(_)
sortByStart(list) ==
  IF Len(list) = 0 THEN <<>>
  ELSE InsertByStart(sortByStart(SubSeq(list, 1, Len(list) - 1)), list[Len(list)])

\* date.toISOString().replace("Z", "+00:00"): the instant t, whose
\* milliseconds are written ms (".000" or ".999"), in UTC with milliseconds.
isoUtc(t, ms) ==
  [IsoString(UtcFields(t), "+", 0, 0) EXCEPT !.strict = FALSE, !.raw = ms]

\* An occurrence whose end is the series' end string.
OccurrenceWithSeriesEnd(recurringEvent, startISO, hasEnd, durationSec) ==
  [id           |-> OccurrenceId(recurringEvent.id, startISO),
   seriesId     |-> recurringEvent.id,
   title        |-> recurringEvent.title,
   start        |-> startISO,
   end          |-> recurringEvent.end,
   createdAt    |-> Undefined,
   place        |-> recurringEvent.place,
   participants |-> recurringEvent.participants,
   tz           |-> Undefined,
   rrule        |-> NoRuleString,
   exDates      |-> NoArray]

\* The event expandRecurringIntoEvents makes of the start string startISO.
Occurrence(recurringEvent, startISO, hasEnd, durationSec) ==
  [id           |-> OccurrenceId(recurringEvent.id, startISO),
   seriesId     |-> recurringEvent.id,
   title        |-> recurringEvent.title,
   start        |-> startISO,
   end          |-> IF hasEnd
                    THEN formatIsoInTimeZone(ParseDate(startISO).t + durationSec,
                                             recurringEvent.tz.raw)
                    ELSE Undefined,
   createdAt    |-> Undefined,
   place        |-> recurringEvent.place,
   participants |-> recurringEvent.participants,
   tz           |-> Undefined,
   rrule        |-> NoRuleString,
   exDates      |-> NoArray]

\* What a query leaves: the list it returns or the error it threw, and the
\* zones whose formatter it put in dtfCache.
Listed(list) == [ok |-> TRUE, err |-> "", list |-> list, cached |-> {}]
ListError(msg) == [ok |-> FALSE, err |-> msg, list |-> <<>>, cached |-> {}]

\* occStarts.map(...) of expandRecurringIntoEvents, occ being what
\* expandOccurrences left; formatIsoInTimeZone throws where getZonedParts does.
Materialized(recurringEvent, occ) ==
  IF ~occ.ok THEN [ListError(occ.err) EXCEPT !.cached = occ.cached]
  ELSE IF /\ Truthy(recurringEvent.end)
          /\ \E i \in 1..Len(occ.out) :
               ~getZonedParts(ParseDate(occ.out[i]).t
                                + (ParseDate(recurringEvent.end).t
                                     - ParseDate(recurringEvent.start).t),
                              recurringEvent.tz.raw).ok
       THEN [ListError(ErrOffset) EXCEPT !.cached = occ.cached]
  ELSE [Listed([i \in 1..Len(occ.out) |->
                  Occurrence(recurringEvent, occ.out[i], Truthy(recurringEvent.end),
                             ParseDate(recurringEvent.end).t
                               - ParseDate(recurringEvent.start).t)])
          EXCEPT !.cached = occ.cached]

\* The arguments expandRecurringIntoEvents and occurrences hand to
\* expandOccurrences.
CallFor(event, fromISO, toISO) ==
  [dtStart |-> event.start, tz |-> event.tz.raw, rrule |-> event.rrule,
   from |-> fromISO, to |-> toISO, mode |-> "wall",
   exDates |-> IF event.exDates.kind = "array" THEN event.exDates.items ELSE <<>>]

\* expandRecurringIntoEvents
expandRecurringIntoEvents(recurringEvent, rangeStartISO, rangeEndISO) ==
  Materialized(recurringEvent,
               expandOccurrences(CallFor(recurringEvent, rangeStartISO, rangeEndISO)))

\* ev.rrule && ev.tz
IsSeries(ev) ==
  /\ ev.rrule.type = "string" /\ Len(ev.rrule.parts) > 0
  /\ Truthy(ev.tz)

\* !ev.rrule
IsSingle(ev) == ~(ev.rrule.type = "string" /\ Len(ev.rrule.parts) > 0)

\* acc followed by what the next series expands to, or the error either threw.
FlatMapStep(acc, next) ==
  IF ~acc.ok THEN acc
  ELSE IF ~next.ok THEN [next EXCEPT !.cached = acc.cached \cup @]
  ELSE [next EXCEPT !.list = acc.list \o @, !.cached = acc.cached \cup @]

\* series.flatMap((ev) => expandRecurringIntoEvents(ev, from, to)) over the
\* events of all from index i on, in order, stopping at the first throw.
RECURSIVE FlatMapFrom(_, _, _, _, _)
FlatMapFrom(all, i, rangeStartISO, rangeEndISO, acc) ==
  IF i > Len(all) \/ ~acc.ok THEN acc
  ELSE IF ~IsSeries(all[i])
       THEN FlatMapFrom(all, i + 1, rangeStartISO, rangeEndISO, acc)
  ELSE FlatMapFrom(all, i + 1, rangeStartISO, rangeEndISO,
                   FlatMapStep(acc, expandRecurringIntoEvents(all[i], rangeStartISO,
                                                              rangeEndISO)))

\* all.filter((ev) => !ev.rrule && overlaps(ev, rangeStart, rangeEnd))
RECURSIVE Singles(_, _, _)
Singles(all, rangeStart, rangeEnd) ==
  IF Len(all) = 0 THEN <<>>
  ELSE (IF IsSingle(all[1]) /\ overlaps(all[1], rangeStart, rangeEnd)
        THEN <<all[1]>> ELSE <<>>)
       \o Singles(Tail(all), rangeStart, rangeEnd)

\* occs.filter((ev) => overlaps(ev, rangeStart, rangeEnd))
RECURSIVE FilteredOccs(_, _, _)
FilteredOccs(occs, rangeStart, rangeEnd) ==
  IF Len(occs) = 0 THEN <<>>
  ELSE (IF overlaps(occs[1], rangeStart, rangeEnd) THEN <<occs[1]>> ELSE <<>>)
       \o FilteredOccs(Tail(occs), rangeStart, rangeEnd)

\* The end of today, week and listRange once the series are expanded (occs).
Merged(all, rangeStart, rangeEnd, occs) ==
  IF ~occs.ok THEN occs
  ELSE [occs EXCEPT !.list = sortByStart(Singles(all, rangeStart, rangeEnd)
                                           \o FilteredOccs(@, rangeStart, rangeEnd))]

\* The body today, week and listRange share: the range as Dates and as the
\* strings handed to the generator.
RangeQuery(all, rangeStart, rangeEnd, rangeStartISO, rangeEndISO) ==
  Merged(all, rangeStart, rangeEnd,
         FlatMapFrom(all, 1, rangeStartISO, rangeEndISO, Listed(<<>>)))

\* calendar.listRange(fromISO, toISO) over the stored list all.
listRange(all, fromISO, toISO) ==
  RangeQuery(all, ParseDate(fromISO), ParseDate(toISO), fromISO, toISO)

\* calendar.list()
list(all) == Listed(sortByStart(all))

\* The timezone of the machine (the process's local time).
MachineZone == "Europe/Warsaw"

\* new Date(year, month, day, hour, minute, second) in the machine's zone,
\* for civil times away from its changes of offset.
LocalDate(local) ==
  DateUTC(local)
    - TzOffsetMinutes(MachineZone,
                      DateUTC(local)
                        - TzOffsetMinutes(MachineZone, DateUTC(local)) * SecPerMin)
        * SecPerMin

\* getFullYear / getMonth / getDate of the instant now, in the machine's zone.
LocalFields(now) == UtcFields(now + TzOffsetMinutes(MachineZone, now) * SecPerMin)

\* The civil time h:m:s on the date days days after the date of d.
AtTime(d, days, h, m, s) ==
  [year |-> addDaysLocal(d, days).year, month |-> addDaysLocal(d, days).month,
   day |-> addDaysLocal(d, days).day, hour |-> h, minute |-> m, second |-> s]

\* today / week once the first and the last instant of the range are known:
\* the last one has 999 milliseconds, which no whole-second instant lies in.
BetweenDates(all, first, last) ==
  RangeQuery(all, DateOf(first), DateOf(last), isoUtc(first, ".000"), isoUtc(last, ".999"))

\* calendar.today() at the instant now.
today(all, now) ==
  BetweenDates(all, LocalDate(AtTime(LocalFields(now), 0, 0, 0, 0)),
                    LocalDate(AtTime(LocalFields(now), 0, 23, 59, 59)))

\* diffToMon of week(): the days from the weekday day (0 = Sunday) to Monday.
diffToMon(day) == IF day = 0 THEN -6 ELSE 1 - day

\* calendar.week() at the instant now: Monday 00:00 to Sunday 23:59:59.999.
week(all, now) ==
  BetweenDates(
    all,
    LocalDate(AtTime(LocalFields(now),
                     diffToMon(weekdayIndexFromLocalDate(LocalFields(now))), 0, 0, 0)),
    LocalDate(AtTime(LocalFields(now),
                     diffToMon(weekdayIndexFromLocalDate(LocalFields(now))) + 6,
                     23, 59, 59)))

\* What expandOccurrences left, as the list of strings occurrences returns.
Strings(occ) == [ok |-> occ.ok, err |-> occ.err, list |-> occ.out, cached |-> occ.cached]

\* calendar.occurrences(eventId, fromISO, toISO) once the event is found.
occurrencesOf(event, fromISO, toISO) ==
  IF ~IsSeries(event) THEN ListError("Event is not recurring")
  ELSE Strings(expandOccurrences(CallFor(event, fromISO, toISO)))

----------------------------------------------------------------------------
(* The calendar as a state machine: each step is one call of its API.       *)

MaxEvents == 2   \* at most this many events are ever added

\* The object handed to add: title, start, end, tz and rrule as given, no
\* place, participants or exDates.
Object(title, start, end, tz, rrule) ==
  [id |-> NoId, seriesId |-> NoId, title |-> title, start |-> start, end |-> end,
   createdAt |-> Undefined, place |-> Undefined, participants |-> NoArray,
   tz |-> tz, rrule |-> rrule, exDates |-> NoArray]

NoObject == Object(Undefined, Undefined, Undefined, Undefined, NoRuleString)

\* Sunday 29 March 2026 00:30 in Warsaw, ninety minutes before the clocks go
\* forward, and the weekly series anchored a week earlier.
SundayNight == IsoString(Local(2026, 3, 29, 0, 30, 0), "+", 1, 0)
SeriesStart == IsoString(Local(2026, 3, 22, 0, 30, 0), "+", 1, 0)

EverySunday ==
  RuleString(<<Part("FREQ", RawString("WEEKLY")), Part("BYDAY", RawString("SU"))>>)

\* The objects add is called with: a single event of two elapsed hours across
\* the change of offset, with an empty exception list; a weekly series of
\* two-hour events, with none; an object without title; a series without
\* timezone.
AddObjects ==
  { [Object(RawString("Night shift"), SundayNight,
            IsoString(Local(2026, 3, 29, 3, 30, 0), "+", 2, 0), Undefined, NoRuleString)
       EXCEPT !.exDates = ArrayOf(<<>>)],
    Object(RawString("Night run"), SeriesStart,
           IsoString(Local(2026, 3, 22, 2, 30, 0), "+", 1, 0),
           RawString("Europe/Warsaw"), EverySunday),
    Object(Undefined, SundayNight, Undefined, Undefined, NoRuleString),
    Object(RawString("Night run"), SeriesStart, Undefined, Undefined, EverySunday) }

\* The updates edit is called with: an empty exception list; an end before
\* any start.
EditUpdates ==
  { Updates({"exDates"}, [NoObject EXCEPT !.exDates = ArrayOf(<<>>)]),
    Updates({"end"}, [NoObject EXCEPT !.end = IsoString(Local(2026, 1, 1, 0, 0, 0), "+", 1, 0)]) }

\* The ids the calls name: those handed out so far or later.
Ids == {EventId(n) : n \in 1..MaxEvents}

\* The strings skip is called with: the series' occurrence of 29 March.
SkipDates == {SundayNight}

\* The bounds of the range queries: three weeks around the change of offset;
\* a day that opens half an hour into the events of 29 March; a range with no
\* lower bound and an upper bound that is no date.
QueryRanges ==
  { <<IsoString(Local(2026, 3, 22, 0, 0, 0), "+", 1, 0),
      IsoString(Local(2026, 4, 5, 23, 59, 59), "+", 2, 0)>>,
    <<IsoString(Local(2026, 3, 29, 1, 0, 0), "+", 1, 0),
      IsoString(Local(2026, 3, 29, 23, 59, 59), "+", 2, 0)>>,
    <<Undefined, RawString("tomorrow")>> }

\* The instants at which today and week are called: Sunday 29 March 2026,
\* 10:00 UTC.
Nows == { DaysFromCivil(2026, 3, 29) * SecPerDay + 10 * 3600 }

\* The call made: its arguments and, for skip, whether the stored exception
\* list held the string when the call was made (held).
NoRequest ==
  [op |-> "none", id |-> NoId, from |-> Undefined, to |-> Undefined, obj |-> NoObject,
   updates |-> Updates({}, NoObject), date |-> Undefined, now |-> 0, held |-> FALSE]

\* What came of the call.  A call that returned: a list (list, today, week, listRange, occurrences),
\* an event (add, edit, skip) or a boolean (delete).
ReturnedList(r)   == [ok |-> TRUE, err |-> "", errors |-> <<>>, list |-> r.list,
                      event |-> NoObject, flag |-> FALSE]
ReturnedEvent(e)  == [ok |-> TRUE, err |-> "", errors |-> <<>>, list |-> <<>>,
                      event |-> e, flag |-> FALSE]
ReturnedFlag(b)   == [ok |-> TRUE, err |-> "", errors |-> <<>>, list |-> <<>>,
                      event |-> NoObject, flag |-> b]
\* A call that threw: the message and, for "Invalid event", the errors joined
\* into it.
Threw(msg, errors) == [ok |-> FALSE, err |-> msg, errors |-> errors, list |-> <<>>,
                       event |-> NoObject, flag |-> FALSE]

NoResponse == Threw("pending", <<>>)

InitCalendar ==
  /\ events = <<>>
  /\ uuid = 0
  /\ request = NoRequest
  /\ response = NoResponse
  /\ skipped = {}
  /\ dtfCache = NoFormatters
  /\ call = NoCall /\ ret = NoResult /\ pc = "ready"
  /\ probe = NoProbe /\ resolved = Thrown("pending") /\ procs = NoProcs

\* calendar.add(obj), obj one of objects
AddFrom(objects) ==
  /\ uuid < MaxEvents
  /\ \E obj \in objects :
       /\ request' = [NoRequest EXCEPT !.op = "add", !.obj = obj]
       /\ IF Len(validateEvent(obj)) > 0
          THEN /\ response' = Threw("Invalid event", validateEvent(obj))
               /\ UNCHANGED <<events, uuid>>
          ELSE /\ events' = save(events, createEvent(obj, EventId(uuid + 1)))
               /\ uuid' = uuid + 1
               /\ response' = ReturnedEvent(createEvent(obj, EventId(uuid + 1)))
  /\ UNCHANGED <<skipped, dtfCache, call, ret, pc, probe, resolved, procs>>

\* calendar.add(obj)
Add == AddFrom(AddObjects)

\* calendar.delete(eventId)
Delete ==
  /\ \E id \in Ids :
       /\ request' = [NoRequest EXCEPT !.op = "delete", !.id = id]
       /\ IF findIndex(events, id) = 0
          THEN /\ response' = ReturnedFlag(FALSE)
               /\ UNCHANGED events
          ELSE /\ events' = removeAt(events, findIndex(events, id))
               /\ response' = ReturnedFlag(TRUE)
       /\ skipped' = {p \in skipped : p.id # id}
  /\ UNCHANGED <<uuid, dtfCache, call, ret, pc, probe, resolved, procs>>

\* An edit that writes the updates before it validates them.
EditedUnvalidated(all, idx, updates) ==
  [list |-> updateAt(all, idx, updates),
   response |-> IF Len(validateEvent(Assigned(all[idx], updates))) > 0
                THEN Threw("Invalid event", validateEvent(Assigned(all[idx], updates)))
                ELSE ReturnedEvent(Assigned(all[idx], updates))]

\* calendar.edit once the event is found at idx: the list it leaves and its
\* answer.
Edited(all, idx, updates) ==
  IF Len(validateEvent(Assigned(all[idx], updates))) > 0
  THEN [list |-> all,
        response |-> Threw("Invalid event", validateEvent(Assigned(all[idx], updates)))]
  ELSE [list |-> updateAt(all, idx, updates),
        response |-> ReturnedEvent(Assigned(all[idx], updates))]

\* calendar.edit(eventId, updates), updates one of changes
EditFrom(changes) ==
  /\ \E id \in Ids, updates \in changes :
       /\ request' = [NoRequest EXCEPT !.op = "edit", !.id = id, !.updates = updates]
       /\ IF findIndex(events, id) = 0
          THEN /\ response' = Threw("Event not found", <<>>)
               /\ UNCHANGED events
          ELSE /\ events' = Edited(events, findIndex(events, id), updates).list
               /\ response' = Edited(events, findIndex(events, id), updates).response
  /\ UNCHANGED <<uuid, skipped, dtfCache, call, ret, pc, probe, resolved, procs>>

\* calendar.edit(eventId, updates)
Edit == EditFrom(EditUpdates)

\* exDates.includes(dateISO), on the array or on the empty one that stands
\* in for a value that is no array.
Has(exDates, dateISO) ==
  exDates.kind = "array" /\ \E i \in 1..Len(exDates.items) : exDates.items[i] = dateISO

\* Whether the stored event eventId holds dateISO among its exceptions.
HeldBy(all, eventId, dateISO) ==
  /\ findIndex(all, eventId) # 0
  /\ Has(all[findIndex(all, eventId)].exDates, dateISO)

\* A skip that pushes the string whether the list has it or not.
skippedAgain(exDates, dateISO) ==
  ArrayOf((IF exDates.kind = "array" THEN exDates.items ELSE <<>>) \o <<dateISO>>)

\* The exception list skip writes: the stored one, or an empty one when the
\* stored one is no array, with dateISO pushed unless it is there already.
skippedOnce(exDates, dateISO) ==
  IF Has(exDates, dateISO)
  THEN ArrayOf(exDates.items)
  ELSE ArrayOf((IF exDates.kind = "array" THEN exDates.items ELSE <<>>) \o <<dateISO>>)


\* The updates object skip hands to storage.update.
SkipUpdates(event, dateISO) ==
  Updates({"exDates"}, [NoObject EXCEPT !.exDates = skippedOnce(event.exDates, dateISO)])

\* calendar.skip(eventId, dateISO), dateISO one of dates
SkipFrom(dates) ==
  /\ \E id \in Ids, dateISO \in dates :
       /\ request' = [NoRequest EXCEPT !.op = "skip", !.id = id, !.date = dateISO,
                                       !.held = HeldBy(events, id, dateISO)]
       /\ IF findIndex(events, id) = 0
          THEN /\ response' = Threw("Event not found", <<>>)
               /\ UNCHANGED <<events, skipped>>
          ELSE IF ~IsSeries(events[findIndex(events, id)])
          THEN /\ response' = Threw("Event is not recurring", <<>>)
               /\ UNCHANGED <<events, skipped>>
          ELSE /\ events' = updateAt(events, findIndex(events, id),
                                     SkipUpdates(events[findIndex(events, id)], dateISO))
               /\ response' =
                    ReturnedEvent(Assigned(events[findIndex(events, id)],
                                           SkipUpdates(events[findIndex(events, id)],
                                                       dateISO)))
               /\ skipped' = skipped \cup {[id |-> id, date |-> dateISO]}
  /\ UNCHANGED <<uuid, dtfCache, call, ret, pc, probe, resolved, procs>>

\* calendar.skip(eventId, dateISO)
Skip == SkipFrom(SkipDates)

\* A query that writes the list it returns back to the file.
storedAfterWritingBack(stored, returned) == returned

\* What the file holds after a query that read the list stored and returned
\* the list returned: the query sorts and filters its own copy of the list
\* and writes nothing.
storedAfterQuery(stored, returned) == stored

\* A query that answers r: the file and the answer.
Queried(r) ==
  /\ response' = (IF r.ok THEN ReturnedList(r) ELSE Threw(r.err, <<>>))
  /\ events' = storedAfterQuery(events, r.list)
  /\ dtfCache' = Cached(dtfCache, r.cached)
  /\ UNCHANGED <<uuid, skipped, call, ret, pc, probe, resolved, procs>>

\* calendar.list()
List ==
  /\ request' = [NoRequest EXCEPT !.op = "list"]
  /\ Queried(list(events))

\* calendar.today()
Today ==
  \E now \in Nows :
    /\ request' = [NoRequest EXCEPT !.op = "today", !.now = now]
    /\ Queried(today(events, now))

\* calendar.week()
Week ==
  \E now \in Nows :
    /\ request' = [NoRequest EXCEPT !.op = "week", !.now = now]
    /\ Queried(week(events, now))

\* calendar.listRange(fromISO, toISO)
ListRange ==
  \E range \in QueryRanges :
    /\ request' = [NoRequest EXCEPT !.op = "listRange", !.from = range[1], !.to = range[2]]
    /\ Queried(listRange(events, range[1], range[2]))

\* calendar.occurrences(eventId, fromISO, toISO)
Occurrences ==
  \E id \in Ids, range \in QueryRanges :
    /\ request' = [NoRequest EXCEPT !.op = "occurrences", !.id = id,
                                    !.from = range[1], !.to = range[2]]
    /\ IF findIndex(events, id) = 0
       THEN Queried(ListError("Event not found"))
       ELSE Queried(occurrencesOf(events[findIndex(events, id)], range[1], range[2]))

NextCalendar ==
  \/ Add \/ Delete \/ Edit \/ Skip
  \/ List \/ Today \/ Week \/ ListRange \/ Occurrences

SpecCalendar == InitCalendar /\ [][NextCalendar]_vars

----------------------------------------------------------------------------
(* The calendar filled with series: what add, edit and skip let into the    *)
(* file, and what listRange makes of it.                                    *)

NightRun ==
  Object(RawString("Night run"), SeriesStart,
         IsoString(Local(2026, 3, 22, 2, 30, 0), "+", 1, 0),
         RawString("Europe/Warsaw"), EverySunday)

\* The series add is called with: the weekly one, and one whose rule has a
\* frequency the parser does not know.
SeriesObjects ==
  { NightRun,
    [NightRun EXCEPT !.rrule = RuleString(<<Part("FREQ", RawString("DAILY"))>>)] }

\* The updates edit is called with: a rule whose UNTIL is no date; an
\* exception list with an entry that has no offset.
SeriesUpdates ==
  { Updates({"rrule"},
            [NoObject EXCEPT !.rrule =
               RuleString(<<Part("FREQ", RawString("WEEKLY")),
                            Part("UNTIL", RawString("tomorrow"))>>)]),
    Updates({"exDates"},
            [NoObject EXCEPT !.exDates = ArrayOf(<<RawString("2026-03-30 09:00")>>)]) }

\* The strings skip is called with: the occurrence of 29 March, and its date
\* alone.
SeriesSkipDates == {SundayNight, RawString("2026-03-29")}

AddSeries  == AddFrom(SeriesObjects)
EditSeries == EditFrom(SeriesUpdates)
SkipSeries == SkipFrom(SeriesSkipDates)

NextSeries == AddSeries \/ EditSeries \/ SkipSeries \/ ListRange

SpecSeries == InitCalendar /\ [][NextSeries]_vars

----------------------------------------------------------------------------
(* The calls that write: what add, edit, skip and delete leave in the file. *)

\* The objects add is called with: those above, and two single events without
\* end, one in a year before 1000 and one in the last hour of the year 9999.
PersistObjects ==
  AddObjects
    \cup { Object(RawString("Coronation"), IsoString(Local(999, 6, 1, 10, 0, 0), "+", 0, 0),
                  Undefined, Undefined, NoRuleString),
           Object(RawString("Last night"),
                  IsoString(Local(9999, 12, 31, 23, 30, 0), "+", 0, 0),
                  Undefined, Undefined, NoRuleString) }

\* The updates edit is called with: those above, and an empty title.
PersistUpdates ==
  EditUpdates \cup { Updates({"title"}, [NoObject EXCEPT !.title = RawString("")]) }

NextPersist == AddFrom(PersistObjects) \/ EditFrom(PersistUpdates) \/ Skip \/ Delete

SpecPersist == InitCalendar /\ [][NextPersist]_vars

----------------------------------------------------------------------------
(* Two processes on one data directory: each mutation of the storage reads  *)
(* events.json whole and writes it whole.                                   *)

Procs == {1, 2}

NightShift ==
  Object(RawString("Night shift"), SundayNight, Undefined, Undefined, NoRuleString)

\* What events.json holds when the processes start: nothing, one event, or
\* two, saved by earlier calls.
StoredLists ==
  { <<>>,
    <<createEvent(NightShift, EventId(1))>>,
    <<createEvent(NightShift, EventId(1)), createEvent(NightRun, EventId(2))>> }

StoredIds == {EventId(1), EventId(2)}

\* A process between two calls.
Idle ==
  [pc |-> "idle", op |-> "none", id |-> NoId, event |-> NoObject,
   updates |-> Updates({}, NoObject), list |-> <<>>, ok |-> FALSE]

\* The event process p saves: a new one with an id of its own.
Saved(p) ==
  createEvent([NightShift EXCEPT !.title = RawString(IF p = 1 THEN "First" ELSE "Second")],
              EventId(2 + p))

\* The updates process p makes: a title of its own.
Retitled(p) ==
  Updates({"title"},
          [NoObject EXCEPT !.title = RawString(IF p = 1 THEN "Moved" ELSE "Put off")])

\* The calls process p makes: save(event), update(eventId, updates),
\* remove(eventId).
Mutations(p) ==
  { [Idle EXCEPT !.op = "save", !.id = EventId(2 + p), !.event = Saved(p)] }
  \cup { [Idle EXCEPT !.op = "update", !.id = id, !.updates = Retitled(p)] : id \in StoredIds }
  \cup { [Idle EXCEPT !.op = "remove", !.id = id] : id \in StoredIds }

InitStorage ==
  /\ events \in StoredLists
  /\ procs = [p \in Procs |-> Idle]
  /\ uuid = 0
  /\ request = NoRequest
  /\ response = NoResponse
  /\ skipped = {}
  /\ dtfCache = NoFormatters
  /\ call = NoCall /\ ret = NoResult /\ pc = "ready"
  /\ probe = NoProbe /\ resolved = Thrown("pending")

\* const events = readData(), the first statement of save, remove and update:
\* process p has the list of the file in its memory.
ReadData(p) ==
  /\ procs[p].pc = "idle"
  /\ \E m \in Mutations(p) :
       procs' = [procs EXCEPT ![p] = [m EXCEPT !.pc = "read", !.list = events]]
  /\ UNCHANGED <<events, uuid, request, response, skipped, dtfCache, call, ret, pc, probe,
                 resolved>>

\* if (idx === -1) return false, of remove and update.
NotFound(m) == m.op \in {"remove", "update"} /\ findIndex(m.list, m.id) = 0

\* The list the call hands to writeData: the list it read with the event
\* pushed, spliced out or assigned to.
Changed(m) ==
  IF m.op = "save" THEN save(m.list, m.event)
  ELSE IF m.op = "remove" THEN removeAt(m.list, findIndex(m.list, m.id))
  ELSE updateAt(m.list, findIndex(m.list, m.id), m.updates)

\* The rest of save, remove and update in process p: it returns false when
\* the list it read has no such event, and writes the changed list over the
\* file otherwise.
WriteData(p) ==
  /\ procs[p].pc = "read"
  /\ IF NotFound(procs[p])
     THEN /\ procs' = [procs EXCEPT ![p].pc = "done", ![p].ok = FALSE]
          /\ UNCHANGED events
     ELSE /\ procs' = [procs EXCEPT ![p].pc = "done", ![p].ok = TRUE]
          /\ events' = Changed(procs[p])
  /\ UNCHANGED <<uuid, request, response, skipped, dtfCache, call, ret, pc, probe, resolved>>

NextStorage == (\E p \in Procs : ReadData(p)) \/ (\E p \in Procs : WriteData(p))

SpecStorage == InitStorage /\ [][NextStorage]_vars

----------------------------------------------------------------------------
(* Properties of expandOccurrences, under SpecExpand.                       *)

ParsedRule == parseRRule(call.rrule)

AnchorInstant == ParseDate(call.dtStart).t

OutInstant(i) == ParseDate(ret.out[i]).t

\* The offset a string is written with, in minutes east of UTC.
IsoOffsetMinutes(str) == (IF str.sign = "+" THEN 1 ELSE -1) * (str.oh * 60 + str.om)

SameTimeOfDay(a, b) ==
  a.hour = b.hour /\ a.minute = b.minute /\ a.second = b.second

SetMax(S) == CHOOSE x \in S : \A y \in S : y <= x

SetMin(S) == CHOOSE x \in S : \A y \in S : x <= y

\* The instants at which zone tz shows the civil time local: none in a gap,
\* two in a fold.
ValidInstants(local, tz) ==
  {DateUTC(local) - o * SecPerMin :
     o \in {q \in ZoneOffsets(tz) :
              TzOffsetMinutes(tz, DateUTC(local) - q * SecPerMin) = q}}

\* C1: every string expandOccurrences returns denotes an instant t with
\* from <= t <= to and t >= the anchor's instant, and with t <= UNTIL when the
\* rule has UNTIL.
C1_WithinWindowAnchorUntil ==
  (pc = "done" /\ ret.ok) =>
    \A i \in 1..Len(ret.out) :
      /\ ParseDate(ret.out[i]).ok
      /\ ParseDate(call.from).t <= OutInstant(i)
      /\ OutInstant(i) <= ParseDate(call.to).t
      /\ OutInstant(i) >= AnchorInstant
      /\ Truthy(ParsedRule.until) => OutInstant(i) <= ParseDate(ParsedRule.until).t

\* A rule with UNTIL, in a window that opens before the anchor and closes
\* after UNTIL, has returned two occurrences or more.
C1_Witness ==
  /\ pc = "done" /\ ret.ok
  /\ Truthy(ParsedRule.until)
  /\ ParseDate(call.from).t < AnchorInstant
  /\ ParseDate(call.to).t > ParseDate(ParsedRule.until).t
  /\ Len(ret.out) >= 2

NotCount(part) == part.key # "COUNT"

\* The rule of the call with its COUNT part left out.
WithoutCount == RuleString(SelectSeq(call.rrule.parts, NotCount))

\* Every occurrence of the series from the anchor's instant to the end of the
\* call's window, in order: the rule without COUNT, no exceptions.
UncountedFromAnchor ==
  expandOccurrences([call EXCEPT !.rrule = WithoutCount,
                                 !.from = UtcString(AnchorInstant),
                                 !.exDates = <<>>]).out

\* C2: with COUNT=n every string returned is one of the first n occurrences of
\* the series at or after the anchor's instant, whatever the window and the
\* exception list: an occurrence left out of the output still uses up COUNT.
C2_CountBeforeFiltering ==
  (pc = "done" /\ ret.ok /\ ParsedRule.hasCount) =>
    LET all == UncountedFromAnchor
    IN  \A i \in 1..Len(ret.out) :
          \E k \in 1..Len(all) : k <= ParsedRule.count /\ all[k] = ret.out[i]

\* COUNT has cut the output short: the window opens after the anchor, the
\* output has fewer than COUNT entries, and the same rule without COUNT has
\* more occurrences in the same window.
C2_Witness ==
  /\ pc = "done" /\ ret.ok /\ ParsedRule.hasCount
  /\ ParseDate(call.from).t > AnchorInstant
  /\ Len(ret.out) >= 1
  /\ Len(ret.out) < ParsedRule.count
  /\ Len(expandOccurrences([call EXCEPT !.rrule = WithoutCount]).out) > Len(ret.out)

WellFormedList(E) ==
  \A i \in 1..Len(E) : StrictForm(E[i]) /\ ParseDate(E[i]).ok

\* The same call with an empty exception list.
Unexcepted == expandOccurrences([call EXCEPT !.exDates = <<>>])

NotAnException(str) == \A i \in 1..Len(call.exDates) : call.exDates[i] # str

\* C3: with a list E of well-formed exception strings the call does what it
\* does with an empty list, the strings that are members of E taken out of
\* the output and the rest left in their order; a string of E that denotes
\* the instant of an occurrence under another offset takes nothing out.
C3_ExceptionsByStringEquality ==
  (pc = "done" /\ Len(call.exDates) > 0 /\ WellFormedList(call.exDates)) =>
    LET plain == Unexcepted
    IN  /\ ret.ok = plain.ok
        /\ ret.err = plain.err
        /\ ret.out = SelectSeq(plain.out, NotAnException)

\* E holds the anchor string, which is an occurrence, and a string that denotes
\* the instant of another occurrence under another offset: the output lacks
\* the first and nothing else.
C3_Witness ==
  /\ pc = "done" /\ ret.ok
  /\ Len(call.exDates) = 2
  /\ call.exDates[1] = call.dtStart
  /\ \E i \in 1..Len(Unexcepted.out) : Unexcepted.out[i] = call.dtStart
  /\ \E j \in 1..Len(ret.out) :
       /\ ret.out[j] # call.exDates[2]
       /\ ParseDate(ret.out[j]).t = ParseDate(call.exDates[2]).t
  /\ Len(ret.out) = Len(Unexcepted.out) - 1

\* The civil time on the date of the string str at the anchor's time of day.
AtAnchorTime(str) ==
  Local(str.year, str.month, str.day,
        call.dtStart.hour, call.dtStart.minute, call.dtStart.second)

\* C4: every string returned carries the offset the zone has at the instant it
\* denotes, and shows the hour, minute and second the anchor string shows,
\* unless the zone never shows that time on that date (a gap).
C4_WallClockStable ==
  (pc = "done" /\ ret.ok) =>
    \A i \in 1..Len(ret.out) :
      /\ IsoOffsetMinutes(ret.out[i]) = TzOffsetMinutes(call.tz, OutInstant(i))
      /\ \/ SameTimeOfDay(ret.out[i], call.dtStart)
         \/ ValidInstants(AtAnchorTime(ret.out[i]), call.tz) = {}

\* A list with an occurrence at the anchor's time of day under another offset
\* than the anchor's, and an occurrence moved off that time by a gap.
C4_Witness ==
  /\ pc = "done" /\ ret.ok
  /\ \E i \in 1..Len(ret.out) :
       /\ SameTimeOfDay(ret.out[i], call.dtStart)
       /\ IsoOffsetMinutes(ret.out[i]) # IsoOffsetMinutes(call.dtStart)
  /\ \E j \in 1..Len(ret.out) : ~SameTimeOfDay(ret.out[j], call.dtStart)

AnchorInWindow ==
  ParseDate(call.from).t <= AnchorInstant /\ AnchorInstant <= ParseDate(call.to).t

\* The anchor's civil date is one the rule selects: its weekday is in the
\* weekday set and, for a MONTHLY rule with BYSETPOS, it is the day of its
\* month at that position among the days on those weekdays.
AnchorOnRule ==
  LET d    == call.dtStart
      wd   == weekdayIndexFromLocalDate(d)
      set  == IF Len(ParsedRule.byday) = 0 THEN {wd}
              ELSE {WEEKDAY_TO_INDEX[ParsedRule.byday[i]] : i \in 1..Len(ParsedRule.byday)}
      days == {x \in 1..DaysInMonthOf(d.year, d.month) :
                 weekdayIndexFromLocalDate([year |-> d.year, month |-> d.month,
                                            day |-> x]) \in set}
  IN  /\ wd \in set
      /\ (ParsedRule.freq = "MONTHLY" /\ ParsedRule.hasBysetpos) =>
           IF ParsedRule.bysetpos > 0
           THEN Cardinality({x \in days : x <= d.day}) = ParsedRule.bysetpos
           ELSE Cardinality({x \in days : x >= d.day}) = 0 - ParsedRule.bysetpos

\* The anchor string is written with the offset the zone has at its civil
\* time; on a fold, with the later of the two.
AnchorInZone ==
  /\ ValidInstants(parseLocalDateTime(call.dtStart), call.tz) # {}
  /\ AnchorInstant = SetMax(ValidInstants(parseLocalDateTime(call.dtStart), call.tz))

\* C8 as stated: when the window contains the anchor's instant and the anchor
\* string is no exception, the first string returned is the anchor string.
\* Stated here for the anchors most in its favour: written with the offset the
\* zone has at their civil time, and not after the rule's UNTIL.
C8_AnchorFirst ==
  ( /\ pc = "done" /\ ret.ok /\ AnchorInWindow /\ NotAnException(call.dtStart)
    /\ AnchorInZone
    /\ Truthy(ParsedRule.until) => ParseDate(ParsedRule.until).t >= AnchorInstant )
  => (Len(ret.out) > 0 /\ ret.out[1] = call.dtStart)

\* C8, amended: the anchor string is the first string returned when, besides,
\* the rule selects the anchor's civil date, the anchor string is written with
\* the offset the zone has at its civil time (the later one on a fold), and
\* UNTIL, if any, is not before the anchor.
C8_AnchorFirstWhenOnRule ==
  ( /\ pc = "done" /\ ret.ok /\ AnchorInWindow /\ NotAnException(call.dtStart)
    /\ AnchorOnRule /\ AnchorInZone
    /\ Truthy(ParsedRule.until) => ParseDate(ParsedRule.until).t >= AnchorInstant )
  => (Len(ret.out) > 0 /\ ret.out[1] = call.dtStart)

\* A rule whose BYDAY names the anchor's weekday and another has returned the
\* anchor first and more after it.
C8_Witness ==
  /\ pc = "done" /\ ret.ok /\ AnchorInWindow /\ NotAnException(call.dtStart)
  /\ AnchorOnRule /\ AnchorInZone
  /\ Len(ParsedRule.byday) = 2
  /\ Len(ret.out) >= 2
  /\ ret.out[1] = call.dtStart

\* C9: the list returned is strictly ascending by instant.
C9_StrictlyAscending ==
  (pc = "done" /\ ret.ok) =>
    \A i \in 1..(Len(ret.out) - 1) : OutInstant(i) < OutInstant(i + 1)

\* A MONTHLY rule has returned three occurrences or more, one of them moved
\* by a gap.
C9_Witness ==
  /\ pc = "done" /\ ret.ok
  /\ ParsedRule.ok /\ ParsedRule.freq = "MONTHLY"
  /\ Len(ret.out) >= 3
  /\ \E i \in 1..Len(ret.out) : ~SameTimeOfDay(ret.out[i], call.dtStart)

\* C10: when an entry of exDates is not a string of the strict form the call
\* throws and returns no list; with the rule, the window and UNTIL in order the
\* error is the one about exDates.
C10_MalformedExDateThrows ==
  (pc = "done" /\ \E i \in 1..Len(call.exDates) : ~StrictForm(call.exDates[i])) =>
    /\ ~ret.ok
    /\ ret.out = <<>>
    /\ ret.err # ""
    /\ (/\ ParsedRule.ok /\ ParseDate(call.from).ok /\ ParseDate(call.to).ok
        /\ Truthy(ParsedRule.until) => ParseDate(ParsedRule.until).ok)
       => ret.err = "invalid exDates: must be strict ISO with offset"

\* The call has thrown over an entry that is not of the strict form, where
\* with an empty list it returns occurrences.
C10_Witness ==
  /\ pc = "done" /\ ~ret.ok
  /\ Len(call.exDates) = 1
  /\ call.exDates[1].type = "string" /\ ~call.exDates[1].strict
  /\ Unexcepted.ok
  /\ Len(Unexcepted.out) > 0

----------------------------------------------------------------------------
(* Properties of the conversions, under SpecResolve.                        *)

ProbeInstantsAt == ValidInstants(probe.local, probe.tz)

\* C5: a civil time the zone shows twice resolves to the later of its two
\* instants, which formatIsoInTimeZone writes with the offset in force after
\* the change.
C5_FoldResolvesLater ==
  (pc = "done" /\ probe.kind = "local" /\ Cardinality(ProbeInstantsAt) = 2) =>
    /\ resolved.ok
    /\ resolved.t = SetMax(ProbeInstantsAt)
    /\ IsoOffsetMinutes(formatIsoInTimeZone(resolved.t, probe.tz))
         = TzOffsetMinutes(probe.tz, SetMax(ProbeInstantsAt) + SecPerDay)

\* A civil time with two instants has been resolved.
C5_Witness ==
  /\ pc = "done" /\ probe.kind = "local"
  /\ Cardinality(ProbeInstantsAt) = 2
  /\ probe.local.second # 0
  /\ resolved.ok

\* The minute shifts within the search limit at which local plus the shift is
\* a civil time the zone shows.
ExistingShifts ==
  {m \in 1..GapSearchLimit :
     ValidInstants(addMinutesLocal(probe.local, m), probe.tz) # {}}

\* Those at which local plus the shift has the minute and second of local.
MatchingShifts ==
  {m \in ExistingShifts :
     /\ addMinutesLocal(probe.local, m).minute = probe.local.minute
     /\ addMinutesLocal(probe.local, m).second = probe.local.second}

\* The size of the change of offset next to local, in minutes.
JumpMinutes ==
  TzOffsetMinutes(probe.tz, DateUTC(probe.local) + SecPerDay)
    - TzOffsetMinutes(probe.tz, DateUTC(probe.local) - SecPerDay)

\* C6: a civil time the zone never shows resolves to the instant of the first
\* civil time within 180 minutes after it that the zone shows with the same
\* minute and second, an instant under the offset in force after the change;
\* to the first civil time the zone shows at all when none has that minute and
\* second; and, for a gap of one hour, to the civil time one hour later.
C6_GapResolvesForward ==
  (pc = "done" /\ probe.kind = "local" /\ ProbeInstantsAt = {}) =>
    /\ MatchingShifts # {} =>
         /\ resolved.ok
         /\ resolved.t \in
              ValidInstants(addMinutesLocal(probe.local, SetMin(MatchingShifts)), probe.tz)
         /\ getZonedParts(resolved.t, probe.tz).minute = probe.local.minute
         /\ getZonedParts(resolved.t, probe.tz).second = probe.local.second
         /\ TzOffsetMinutes(probe.tz, resolved.t)
              = TzOffsetMinutes(probe.tz, DateUTC(probe.local) + SecPerDay)
    /\ (MatchingShifts = {} /\ ExistingShifts # {}) =>
         /\ resolved.ok
         /\ resolved.t \in
              ValidInstants(addMinutesLocal(probe.local, SetMin(ExistingShifts)), probe.tz)
    /\ JumpMinutes = 60 =>
         /\ resolved.ok
         /\ cmpLocalEqual(getZonedParts(resolved.t, probe.tz),
                          addMinutesLocal(probe.local, 60))

\* A civil time in a gap of one hour, not on the hour, has been resolved.
C6_Witness ==
  /\ pc = "done" /\ probe.kind = "local"
  /\ ProbeInstantsAt = {}
  /\ JumpMinutes = 60
  /\ probe.local.minute = 30 /\ probe.local.second = 15
  /\ resolved.ok

LaterTwins == {u \in ProbeInstantsAt : u > probe.t}

----------------------------------------------------------------------------
(* Properties of the calendar, under SpecCalendar.                          *)

\* C11: listRange returns every stored single event and every occurrence of
\* every stored series, not excepted, whose interval overlaps the range
\* (start <= to and end, or start without end, >= from); the occurrences of a
\* series are those generated from its own start up to the range's end.
C11_ListRangeReturnsEveryOverlap ==
  (request.op = "listRange" /\ response.ok) =>
    /\ \A i \in 1..Len(events) :
         (IsSingle(events[i])
            /\ overlaps(events[i], ParseDate(request.from), ParseDate(request.to)))
           => \E k \in 1..Len(response.list) : response.list[k] = events[i]
    /\ \A i \in 1..Len(events) :
         IsSeries(events[i]) =>
           LET occs == expandRecurringIntoEvents(events[i], events[i].start, request.to)
           IN  occs.ok =>
                 \A j \in 1..Len(occs.list) :
                   overlaps(occs.list[j], ParseDate(request.from), ParseDate(request.to))
                     => \E k \in 1..Len(response.list) : response.list[k] = occs.list[j]

\* C12: once skip(id, s) has returned, no occurrences(id, ...) and no
\* listRange returns the occurrence of series id that starts at s, and
\* occurrences(id, ...) still returns every other start the series has in
\* the window.
C12_SkippedStaysHidden ==
  \A p \in skipped :
    /\ (request.op = "occurrences" /\ request.id = p.id /\ response.ok) =>
         /\ \A k \in 1..Len(response.list) : response.list[k] # p.date
         /\ LET ev   == events[findIndex(events, p.id)]
                full == occurrencesOf([ev EXCEPT !.exDates = NoArray],
                                      request.from, request.to)
            IN  \A j \in 1..Len(full.list) :
                  (\A q \in skipped : ~(q.id = p.id /\ q.date = full.list[j]))
                    => \E k \in 1..Len(response.list) : response.list[k] = full.list[j]
    /\ (request.op = "listRange" /\ response.ok) =>
         \A k \in 1..Len(response.list) :
           response.list[k].id # OccurrenceId(p.id, p.date)

\* C13: skip is idempotent: a skip of a string the exception list holds
\* already leaves the stored list as it was, and after any skip that
\* returned, the same skip once more would leave the stored list as it is.
C13_SkipIdempotent ==
  [][(request'.op = "skip" /\ response'.ok) =>
       LET idx == findIndex(events, request'.id)
       IN  /\ Has(events[idx].exDates, request'.date) => events' = events
           /\ updateAt(events', idx, SkipUpdates(events'[idx], request'.date)) = events']_vars

\* C13's case: a skip returned for a string that had been skipped before.
C13_Witness ==
  /\ request.op = "skip" /\ response.ok
  /\ request.held
  /\ response.event.exDates = ArrayOf(<<request.date>>)

\* C14: no call (add, edit with any updates, skip, delete of another event)
\* removes a string from the exception list of an event that stays stored.
C14_ExceptionsNeverRemoved ==
  [][\A i \in 1..Len(events) :
       \A j \in 1..Len(events') :
         (events'[j].id = events[i].id /\ events[i].exDates.kind = "array") =>
           \A k \in 1..Len(events[i].exDates.items) :
             Has(events'[j].exDates, events[i].exDates.items[k])]_vars

\* C15: a call that fails (add or edit rejected by validation; edit, skip or
\* occurrences of an unknown id; skip or occurrences of an event that does
\* not recur; a generation error in listRange or occurrences) leaves the
\* persisted list exactly as it was.
C15_FailedCallWritesNothing ==
  [][~response'.ok => (events' = events /\ uuid' = uuid)]_vars

\* C15's case: an edit of a stored event was rejected by validation.
C15_Witness ==
  /\ request.op = "edit" /\ ~response.ok /\ response.err = "Invalid event"
  /\ findIndex(events, request.id) # 0

\* C16: listRange or occurrences called with from or to missing or not
\* parseable fails, whatever is stored.
C16_InvalidRangeFails ==
  (/\ request.op \in {"listRange", "occurrences"}
   /\ (~ParseDate(request.from).ok \/ ~ParseDate(request.to).ok))
    => ~response.ok

\* C17: list, today, week and listRange return their events in ascending
\* order of start instant, single events and occurrences alike.
C17_AscendingByStart ==
  (request.op \in {"list", "today", "week", "listRange"} /\ response.ok) =>
    \A k \in 1..(Len(response.list) - 1) :
      ParseDate(response.list[k].start).t <= ParseDate(response.list[k + 1].start).t

\* C17's case: listRange returned a single event between two occurrences of
\* the series stored after it.
C17_Witness ==
  /\ request.op = "listRange" /\ response.ok
  /\ Len(response.list) >= 3
  /\ response.list[1].seriesId # NoId
  /\ response.list[2].seriesId = NoId
  /\ response.list[3].seriesId # NoId
  /\ Len(events) = 2 /\ IsSingle(events[1])

\* C18: every occurrence today, week and listRange return carries the id of
\* its series as seriesId, that id, '#' and its start string as id, a start
\* string the series generates, and an end at the elapsed distance from its
\* start that the series' end has from the series' start, written with the
\* offset the series' timezone has at that instant.
C18_MaterializedOccurrence ==
  (request.op \in {"today", "week", "listRange"} /\ response.ok) =>
    \A k \in 1..Len(response.list) :
      LET o == response.list[k]
      IN  o.seriesId # NoId =>
            /\ findIndex(events, o.seriesId) # 0
            /\ LET series == events[findIndex(events, o.seriesId)]
                   endAt  == ParseDate(o.start).t
                               + (ParseDate(series.end).t - ParseDate(series.start).t)
                   gen    == occurrencesOf(series, series.start, o.start)
               IN  /\ IsSeries(series)
                   /\ o.id = OccurrenceId(series.id, o.start)
                   /\ gen.ok /\ \E j \in 1..Len(gen.list) : gen.list[j] = o.start
                   /\ ParseDate(o.end).ok /\ ParseDate(o.end).t = endAt
                   /\ o.end.strict
                   /\ (IF o.end.sign = "+" THEN 1 ELSE -1) * (o.end.oh * 60 + o.end.om)
                        = TzOffsetMinutes(series.tz.raw, endAt)

\* C18's case: the occurrence of 29 March, which starts at +01:00 and ends,
\* two elapsed hours later, at 03:30 +02:00.
C18_Witness ==
  /\ request.op = "listRange" /\ response.ok
  /\ \E k \in 1..Len(response.list) :
       /\ response.list[k].seriesId # NoId
       /\ response.list[k].start = SundayNight
       /\ response.list[k].end = IsoString(Local(2026, 3, 29, 3, 30, 0), "+", 2, 0)

\* C19: delete(id) of a stored id removes that event and no other, leaves
\* the others in their order and returns true; delete of an id not stored
\* returns false and leaves the list as it was.
C19_DeleteExactlyThat ==
  [][request'.op = "delete" =>
       IF \E i \in 1..Len(events) : events[i].id = request'.id
       THEN /\ response' = ReturnedFlag(TRUE)
            /\ \E i \in 1..Len(events) :
                 /\ events[i].id = request'.id
                 /\ Len(events') = Len(events) - 1
                 /\ \A j \in 1..(i - 1) : events'[j] = events[j]
                 /\ \A j \in i..Len(events') : events'[j] = events[j + 1]
       ELSE /\ response' = ReturnedFlag(FALSE)
            /\ events' = events]_vars

\* C19's case: the second of two stored events was deleted.
C19_Witness ==
  /\ request.op = "delete" /\ response.flag
  /\ request.id = EventId(2)
  /\ Len(events) = 1 /\ events[1].id = EventId(1)

\* C20: list, today, week, listRange and occurrences, whether they return or
\* throw, leave the persisted list, and with it the exception list of every
\* stored series, as it was.
C20_QueriesWriteNothing ==
  [][request'.op \in {"list", "today", "week", "listRange", "occurrences"}
       => (events' = events /\ uuid' = uuid)]_vars

\* C20's case: list returned the stored events in another order than the
\* stored one, one of them a series with an exception.
C20_Witness ==
  /\ request.op = "list" /\ response.ok
  /\ response.list # events
  /\ \E i \in 1..Len(events) : Has(events[i].exDates, SundayNight)

----------------------------------------------------------------------------
(* The generator far from the anchor: windows that open several periods     *)
(* after it, windows that close just before a month ends in UTC, and        *)
(* windows around the two ceilings.                                         *)

MaxSkip == 3   \* a window opens up to 3 * MaxSkip weeks, or months, after the anchor

\* Anchors of 2015, so that 240 months later is still an instant of 32 bits.
ScanSeries ==
  { \* Sunday the first of a month, half an hour after midnight, east of UTC
    <<"Europe/Warsaw", IsoString(Local(2015, 2, 1, 0, 30, 0), "+", 1, 0)>>,
    \* the same Sunday in the morning
    <<"Europe/Warsaw", IsoString(Local(2015, 2, 1, 9, 0, 0), "+", 1, 0)>>,
    \* the same Sunday late in the evening, west of UTC
    <<"America/New_York", IsoString(Local(2015, 2, 1, 21, 30, 0), "-", 5, 0)>> }

\* 00:00 UTC on the first of the month m months after January of year y.
FirstOfMonth(y, m) == DaysFromCivil(y + m \div 12, (m % 12) + 1, 1) * SecPerDay

\* No limit, an UNTIL thirty weeks after the anchor, or a COUNT.
ScanLimits(dtStart) ==
  { <<>>,
    <<Part("UNTIL", UtcString(ParseDate(dtStart).t + 30 * WeekSeconds))>>,
    <<Part("COUNT", Numeral(MaxCount))>> }

ScanRules(dtStart) ==
  { RuleString(<<Part("FREQ", RawString(f)), Part("INTERVAL", Numeral(i))>> \o b \o l) :
      f \in {"WEEKLY", "MONTHLY"}, i \in 1..MaxInterval,
      b \in {<<>>, <<Part("BYDAY", RawString("SA,SU"))>>},
      l \in ScanLimits(dtStart) }
  \cup
  { RuleString(<<Part("FREQ", RawString("MONTHLY")), Part("INTERVAL", Numeral(i)),
                 Part("BYDAY", RawString("SU")), Part("BYSETPOS", RawString("1"))>>) :
      i \in 1..MaxInterval }

\* Three weeks that open an hour before the anchor's time of day, 3k weeks
\* after the anchor.
WeekWindow(dtStart, k) ==
  <<UtcString(ParseDate(dtStart).t + 3 * k * WeekSeconds - 3600),
    UtcString(ParseDate(dtStart).t + (3 * k + 3) * WeekSeconds - 3600)>>

\* Six weeks that close a quarter of an hour before 00:00 UTC on the first of
\* the month 3k + 1 months after the anchor's.
MonthEndWindow(dtStart, k) ==
  <<UtcString(FirstOfMonth(dtStart.year, dtStart.month + 3 * k) - 900 - 6 * WeekSeconds),
    UtcString(FirstOfMonth(dtStart.year, dtStart.month + 3 * k) - 900)>>

\* Six weeks around the day WeeklyCeiling days after the anchor, and four
\* months around the month MonthlyCeiling months after the anchor's.
CeilingWindows(dtStart) ==
  { <<UtcString(ParseDate(dtStart).t + (WeeklyCeiling - 21) * SecPerDay),
      UtcString(ParseDate(dtStart).t + (WeeklyCeiling + 21) * SecPerDay)>>,
    <<UtcString(FirstOfMonth(dtStart.year, dtStart.month - 1 + MonthlyCeiling - 2)),
      UtcString(FirstOfMonth(dtStart.year, dtStart.month - 1 + MonthlyCeiling + 2))>> }

ScanWindows(dtStart) ==
  { WeekWindow(dtStart, k) : k \in 0..MaxSkip }
  \cup { MonthEndWindow(dtStart, k) : k \in 0..MaxSkip }
  \cup CeilingWindows(dtStart)

\* The texts given as values of INTERVAL, BYSETPOS and COUNT.
NumberTexts == {"", "0", "1", "2", "-1", "1.5", "x"}

\* What follows FREQ in the rule strings given to the parser: nothing, a
\* numeric key with each text, a key without "=", keys the parser does not
\* know, BYDAY with known and unknown codes, and a key given twice.
ParserTails ==
  { <<>> }
  \cup { <<Part(k, RawString(v))>> : k \in {"INTERVAL", "BYSETPOS", "COUNT"}, v \in NumberTexts }
  \cup { <<BarePart(k)>> : k \in {"COUNT", "BYEASTER"} }
  \cup { <<Part(k, RawString("1"))>> : k \in {"BYEASTER", "BYMONTHDAY", "WKST"} }
  \cup { <<Part("BYDAY", RawString(v))>> : v \in {"MO,WE", "XX", ",", ""} }
  \cup { <<Part("INTERVAL", RawString("x")), Part("INTERVAL", RawString("2"))>>,
         <<Part("COUNT", RawString("2")), Part("COUNT", RawString("0"))>> }

\* The rule strings given to the parser: FREQ with a supported, an unsupported
\* and a lower-case value, or no FREQ, and a tail; and the empty string.
ParserRules ==
  { RuleString(<<Part("FREQ", RawString(f))>> \o t) :
      f \in {"WEEKLY", "MONTHLY", "DAILY", "weekly"}, t \in ParserTails }
  \cup { RuleString(t) : t \in ParserTails }

\* Friday 09:00 in Apia, three weeks before the Friday the zone left out
\* (2011-12-30) when it crossed the date line.
ApiaSeries == <<"Pacific/Apia", IsoString(Local(2011, 12, 9, 9, 0, 0), "-", 10, 0)>>

\* The series the parser's rule strings are called with.
ParserSeries == <<"Europe/Warsaw", IsoString(Local(2015, 2, 1, 9, 0, 0), "+", 1, 0)>>

\* Every rule in every window for the series of 2015, and in the windows of
\* the first weeks (in which the zone's offset is as ZoneRule has it) for the
\* series of Apia; and the parser's rule strings in one window.
ScanCalls ==
  UNION { { Call(s, r, w, <<>>) : r \in ScanRules(s[2]), w \in ScanWindows(s[2]) } :
          s \in ScanSeries }
  \cup { Call(ApiaSeries, r, WeekWindow(ApiaSeries[2], k), <<>>) :
           r \in ScanRules(ApiaSeries[2]), k \in 0..MaxSkip }
  \cup { Call(ParserSeries, r, WeekWindow(ParserSeries[2], 0), <<>>) : r \in ParserRules }

InitScan ==
  /\ call \in ScanCalls
  /\ ret = NoResult
  /\ pc = "ready"
  /\ dtfCache = NoFormatters
  /\ probe = NoProbe
  /\ resolved = Thrown("pending") /\ procs = NoProcs
  /\ events = <<>> /\ uuid = 0 /\ request = "none" /\ response = "none"
  /\ skipped = {}

\* The calls made again after other calls: a plain weekly rule in each zone.
RepeatCalls ==
  { Call(s, RuleString(<<Part("FREQ", RawString("WEEKLY"))>>), WeekWindow(s[2], MaxSkip), <<>>) :
      s \in ScanSeries \cup {ApiaSeries} }

\* The module stays loaded: after a call has returned or thrown, another call
\* is made, and dtfCache is what the calls before left.
CallAgain ==
  /\ pc = "done"
  /\ call' \in RepeatCalls
  /\ ret' = NoResult
  /\ pc' = "ready"
  /\ UNCHANGED <<dtfCache, probe, resolved, events, uuid, request, response, skipped, procs>>

NextScan == ExpandOccurrences \/ CallAgain

SpecScan == InitScan /\ [][NextScan]_vars

----------------------------------------------------------------------------
(* The calls around the ceilings, each run to its end.                      *)

CeilingCalls ==
  UNION { { Call(s, r, w, <<>>) : r \in ScanRules(s[2]), w \in CeilingWindows(s[2]) } :
          s \in ScanSeries }

\* expandOccurrences as a function on CeilingCalls.
AtCeiling == [a \in CeilingCalls |-> expandOccurrences(a)]

InitCeiling ==
  /\ call \in CeilingCalls
  /\ ret = NoResult
  /\ pc = "ready"
  /\ dtfCache = NoFormatters
  /\ probe = NoProbe
  /\ resolved = Thrown("pending") /\ procs = NoProcs
  /\ events = <<>> /\ uuid = 0 /\ request = "none" /\ response = "none"
  /\ skipped = {}

\* One call of expandOccurrences with the arguments in call.
ExpandAtCeiling ==
  /\ pc = "ready"
  /\ ret' = [AtCeiling[call] EXCEPT !.cached = {}]
  /\ dtfCache' = Cached(dtfCache, AtCeiling[call].cached)
  /\ pc' = "done"
  /\ UNCHANGED <<call, probe, resolved, events, uuid, request, response, skipped, procs>>

\* A call that is made runs to its return or its throw: the function is
\* synchronous, and nothing it waits for can hold it up.
SpecCeiling == InitCeiling /\ [][ExpandAtCeiling]_vars /\ WF_vars(ExpandAtCeiling)

----------------------------------------------------------------------------
(* Properties of expandOccurrences far from the anchor, under SpecScan.     *)

FromInstant == ParseDate(call.from).t

ToInstant == ParseDate(call.to).t

NotAfterTo(str) == ParseDate(str).t <= ToInstant

\* The call with its window closed ten weeks later.
ClosedLater ==
  expandOccurrences([call EXCEPT !.to = UtcString(ToInstant + 10 * WeekSeconds)])

\* C21: a MONTHLY rule without COUNT returns every occurrence of the rule in
\* the window: the output is that of the same call with the window closed ten
\* weeks later, cut at the window's upper bound.  The stop at the upper bound
\* drops nothing.
C21_EarlyStopDropsNothing ==
  (pc = "done" /\ ret.ok /\ ParsedRule.freq = "MONTHLY" /\ ~ParsedRule.hasCount) =>
    ret.out = SelectSeq(ClosedLater.out, NotAfterTo)

\* The call got as far as the loops.
ReachedLoops ==
  /\ call.mode = "wall" /\ ParsedRule.ok
  /\ ParseDate(call.from).ok /\ ParseDate(call.to).ok
  /\ Truthy(ParsedRule.until) => ParseDate(ParsedRule.until).ok
  /\ ~exDatesInvalid(call.exDates)

\* startDayOffset or startMonthOffset of the call.
SkipOffset ==
  IF ParsedRule.freq = "WEEKLY" THEN WeeklyStart(Context(call, ParsedRule))
  ELSE MonthlyStart(Context(call, ParsedRule))

\* Both loops from offset 0 to their ceilings.
ScanFromAnchor(c) ==
  IF c.rule.freq = "WEEKLY" THEN WeeklyLoop(c, 0, WeeklyCeiling - 1, NoCandidateYet)
  ELSE MonthlyLoop(c, 0, 0, (MonthlyCeiling - 1) \div c.rule.interval, NoCandidateYet)

\* What the call leaves when it scans from the anchor.
ScannedFromAnchor == Outcome(call.tz, ScanFromAnchor(Context(call, ParsedRule)))

\* C22 as stated: without COUNT the call leaves exactly what a scan from the
\* anchor leaves, list or error.
C22_SkipAheadSameAsScan ==
  (pc = "done" /\ ReachedLoops /\ ~ParsedRule.hasCount) =>
    LET scan == ScannedFromAnchor
    IN  ret.ok = scan.ok /\ ret.err = scan.err /\ ret.out = scan.out

\* C22, amended: without COUNT, whenever a scan from the anchor returns a
\* list the call returns the same list; when the scan from the anchor throws,
\* the call throws the same error, or it has skipped the candidate that
\* throws and returns a list.
C22_SkipAheadSameWhenScanReturns ==
  (pc = "done" /\ ReachedLoops /\ ~ParsedRule.hasCount) =>
    LET scan == ScannedFromAnchor
    IN  /\ scan.ok => (ret.ok /\ ret.out = scan.out)
        /\ ~scan.ok => \/ (~ret.ok /\ ret.err = scan.err)
                       \/ (ret.ok /\ SkipOffset > 0)

\* A MONTHLY rule of every other month, scanned from an offset past the
\* anchor's month, has returned an occurrence: the same as the scan from the
\* anchor returns.
C22_Witness ==
  /\ pc = "done" /\ ret.ok /\ ~ParsedRule.hasCount
  /\ ParsedRule.freq = "MONTHLY" /\ ParsedRule.interval = 2
  /\ SkipOffset > 0
  /\ Len(ret.out) > 0
  /\ ret.out = ScannedFromAnchor.out

\* Whole days from the anchor's civil date to the civil date of a string.
DaysAfterAnchor(str) ==
  DaysFromCivil(str.year, str.month, str.day)
    - DaysFromCivil(call.dtStart.year, call.dtStart.month, call.dtStart.day)

\* Whole months from the anchor's month to the month of a string.
MonthsAfterAnchor(str) ==
  (str.year - call.dtStart.year) * 12 + (str.month - call.dtStart.month)

\* Every string returned lies fewer days (WEEKLY) or months (MONTHLY) after
\* the anchor's date than the ceiling of its loop.
UnderCeiling ==
  \A i \in 1..Len(ret.out) :
    IF ParsedRule.freq = "WEEKLY" THEN DaysAfterAnchor(ret.out[i]) < WeeklyCeiling
    ELSE MonthsAfterAnchor(ret.out[i]) < MonthlyCeiling

\* C25: every call of expandOccurrences ends, with or without COUNT and UNTIL
\* and however far the window is from the anchor, and when it ends nothing it
\* returned is 3660 days or more (WEEKLY), or 240 months or more (MONTHLY),
\* after the anchor's date.
C25_EndsUnderCeiling == (pc = "ready") ~> (pc = "done" /\ UnderCeiling)

\* A WEEKLY rule on Saturdays and Sundays with neither COUNT nor UNTIL, anchored
\* on a Sunday, in a window that closes three weeks past the ceiling: the last
\* string returned is the Sunday 3654 days after the anchor's date, and the
\* Saturday 3660 days after it is not returned.
C25_Witness ==
  /\ pc = "done" /\ ret.ok /\ ParsedRule.freq = "WEEKLY"
  /\ ~ParsedRule.hasCount /\ ~Truthy(ParsedRule.until)
  /\ Len(ParsedRule.byday) = 2
  /\ ToInstant > AnchorInstant + (WeeklyCeiling + 7) * SecPerDay
  /\ Len(ret.out) > 0
  /\ DaysAfterAnchor(ret.out[Len(ret.out)]) = WeeklyCeiling - 6

\* The rule string of the call has a part with key k.
HasKey(k) == \E i \in 1..Len(call.rrule.parts) : call.rrule.parts[i].key = k

\* The value of key k in the rule string of the call is an integer of at
\* least least, and not zero.
IntegerFrom(k, least) ==
  LET v == NumberOf(OutOf(call.rrule.parts, k))
  IN  v.int /\ v.n >= least /\ v.n # 0

\* The rule string of the call is one the claim says must fail.
MustFail ==
  \/ Len(call.rrule.parts) = 0
  \/ \E i \in 1..Len(call.rrule.parts) :
       \/ call.rrule.parts[i].key \notin SUPPORTED_KEYS
       \/ ~call.rrule.parts[i].eq
  \/ HasKey("INTERVAL") /\ ~IntegerFrom("INTERVAL", 1)
  \/ HasKey("BYSETPOS") /\ ~IntegerFrom("BYSETPOS", -9)
  \/ HasKey("COUNT") /\ ~IntegerFrom("COUNT", 1)

\* The rule parseRRule returned is well formed.
WellFormedRule(r) ==
  /\ r.freq \in {"WEEKLY", "MONTHLY"}
  /\ r.interval \in Nat /\ r.interval >= 1
  /\ ~HasKey("INTERVAL") => r.interval = 1
  /\ \A i \in 1..Len(r.byday) : r.byday[i] \in {"SU", "MO", "TU", "WE", "TH", "FR", "SA"}
  /\ r.hasBysetpos => (r.bysetpos \in Int /\ r.bysetpos # 0)
  /\ r.hasCount => (r.count \in Nat /\ r.count >= 1)

\* C26: parseRRule fails, or returns a rule with freq WEEKLY or MONTHLY, an
\* integer interval >= 1 (1 without INTERVAL), BYDAY codes among SU..SA,
\* bysetpos absent or a nonzero integer and count absent or an integer >= 1;
\* and it fails, and the call with it, on the empty string, on a key it does
\* not support, on a pair without "=", and on a present INTERVAL, BYSETPOS or
\* COUNT value that is not such an integer.
C26_ParserFailsOrWellFormed ==
  pc = "done" =>
    /\ ParsedRule.ok => WellFormedRule(ParsedRule)
    /\ MustFail => (~ParsedRule.ok /\ ~ret.ok)

\* C27: a call of expandOccurrences leaves what the same call leaves with
\* no formatter cached, list or error, whatever calls ran before it, so that
\* two calls with identical inputs return identical lists; no step removes a
\* key of dtfCache or replaces the formatter under it; and the formatter under
\* a key is one of the key's zone, as a newly built one is.
C27_SameWhateverIsCached ==
  [][/\ \A z \in DOMAIN dtfCache : z \in DOMAIN dtfCache' /\ dtfCache'[z] = dtfCache[z]
     /\ \A z \in DOMAIN dtfCache' : dtfCache'[z] = Formatter(NoFormatters, z)
     /\ (pc = "ready" /\ pc' = "done")
          => ret' = [expandOccurrences(call) EXCEPT !.cached = {}]]_vars

\* A call has returned occurrences with the formatters of all three zones
\* cached: calls in two other zones, at least, ran before it returned.
C27_Witness ==
  /\ pc = "done" /\ ret.ok /\ Len(ret.out) > 0
  /\ Cardinality(DOMAIN dtfCache) = 3

----------------------------------------------------------------------------
(* Properties of the stored series, under SpecSeries.                       *)

\* C28: whatever add, edit and skip have stored, listRange called with two
\* well-formed bounds returns a list and does not throw.
C28_AcceptedSeriesExpand ==
  (/\ request.op = "listRange"
   /\ isStrictISODateTimeWithOffset(request.from)
   /\ isStrictISODateTimeWithOffset(request.to))
    => response.ok

----------------------------------------------------------------------------
(* Properties of the storage under two processes, under SpecStorage.        *)

\* Whether the file holds what the mutation m made: the event saved, the
\* title assigned, no event of the id removed.
Present(m, file) ==
  IF m.op = "save"
  THEN findIndex(file, m.id) # 0 /\ file[findIndex(file, m.id)] = m.event
  ELSE IF m.op = "remove" THEN findIndex(file, m.id) = 0
  ELSE /\ findIndex(file, m.id) # 0
       /\ file[findIndex(file, m.id)].title = m.updates.vals.title

\* C29: when both processes have made a mutation, each of an event of its
\* own, events.json holds both: no update is lost, however the reads and
\* writes fell.
C29_NoUpdateLost ==
  (/\ \A p \in Procs : procs[p].pc = "done" /\ procs[p].ok
   /\ procs[1].id # procs[2].id)
    => \A p \in Procs : Present(procs[p], events)

----------------------------------------------------------------------------
(* Properties of the file, under SpecPersist.                               *)

\* C30: after any calls of add, edit, skip and delete, returned or thrown,
\* every event in events.json passes validateEvent: its title is not empty,
\* its start has the strict form, its end, when it has one, has the strict
\* form and is after the start, and it has a timezone when it has a rule.
C30_PersistedEventsValid ==
  \A i \in 1..Len(events) : Len(validateEvent(events[i])) = 0

----------------------------------------------------------------------------
(* Which dates a rule selects, under SpecExpand.                            *)

\* The day number of the anchor's civil date.
AnchorDay == DaysFromCivil(call.dtStart.year, call.dtStart.month, call.dtStart.day)

\* The weekdays of the rule: BYDAY, or the weekday of the anchor's date.
WeekdaySet ==
  IF Len(ParsedRule.byday) > 0
  THEN {WEEKDAY_TO_INDEX[ParsedRule.byday[i]] : i \in 1..Len(ParsedRule.byday)}
  ELSE {(AnchorDay + 4) % 7}

\* The instant of the anchor's time of day on day number n in the zone.
InstantOnDay(n) ==
  resolveLocalToUtc(
    Local(CivilFromDays(n).year, CivilFromDays(n).month, CivilFromDays(n).day,
          call.dtStart.hour, call.dtStart.minute, call.dtStart.second), call.tz).t

\* The last day number on which an instant of the window can fall.
LastDay == ParseDate(call.to).t \div SecPerDay + 2

NotBeforeAnchor(t) == t >= AnchorInstant

NotAfterUntil(t) == Truthy(ParsedRule.until) => t <= ParseDate(ParsedRule.until).t

InWindow(t) == ParseDate(call.from).t <= t /\ t <= ParseDate(call.to).t

\* The first COUNT entries of a sequence, all of them without COUNT.
WithinCount(seq) ==
  IF ParsedRule.hasCount /\ Len(seq) > ParsedRule.count
  THEN SubSeq(seq, 1, ParsedRule.count) ELSE seq

\* The instants on the day numbers of a set, in the order of the days: those
\* not before the anchor's instant and not after UNTIL, the first COUNT of
\* them, and of those the ones in the window, as the strings the zone shows,
\* without the strings of the exception list.
OccurrencesOn(days) ==
  LET ordered  == AscendingList(days)
      instants == [i \in 1..Len(ordered) |-> InstantOnDay(ordered[i])]
      series   == WithinCount(SelectSeq(SelectSeq(instants, NotBeforeAnchor), NotAfterUntil))
      inside   == SelectSeq(series, InWindow)
      strings  == [i \in 1..Len(inside) |-> formatIsoInTimeZone(inside[i], call.tz)]
  IN  SelectSeq(strings, NotAnException)

\* The dates a WEEKLY rule selects up to the end of the window: on or after
\* the anchor's date, on a weekday of the set, in a week (of seven days from
\* the anchor's date) whose number is a multiple of INTERVAL.
WeeklyRuleDays ==
  {n \in AnchorDay..LastDay :
     /\ (n + 4) % 7 \in WeekdaySet
     /\ ((n - AnchorDay) \div 7) % ParsedRule.interval = 0}

\* C23: a WEEKLY rule returns exactly the occurrences on the civil dates on
\* or after the anchor's date whose weekday is in the weekday set and whose
\* week, counted in sevens of days from the anchor's date, is a multiple of
\* INTERVAL: of those (none of them before the anchor's instant) the ones up
\* to UNTIL, the first COUNT of them, restricted to the window, both ends
\* included, minus the exceptions.
C23_WeeklyExactly ==
  (pc = "done" /\ ret.ok /\ ParsedRule.freq = "WEEKLY") =>
    ret.out = OccurrencesOn(WeeklyRuleDays)

\* Every other week on two weekdays: three occurrences or more returned, the
\* anchor's date not among its weekdays.
C23_Witness ==
  /\ pc = "done" /\ ret.ok /\ ParsedRule.freq = "WEEKLY"
  /\ ParsedRule.interval = 2
  /\ Len(ParsedRule.byday) = 2
  /\ (AnchorDay + 4) % 7 \notin WeekdaySet
  /\ Len(ret.out) >= 3

\* The day numbers of the month m months after January of year 0 whose
\* weekday is in the weekday set.
QualifyingDays(m) ==
  {n \in DaysFromCivil(m \div 12, (m % 12) + 1, 1)
           .. DaysFromCivil((m + 1) \div 12, ((m + 1) % 12) + 1, 1) - 1 :
     (n + 4) % 7 \in WeekdaySet}

\* The p-th member of a set of numbers in ascending order for p > 0, the
\* |p|-th in descending order for p < 0; nothing when the set has fewer.
Nth(Q, p) ==
  IF p > 0 THEN {n \in Q : Cardinality({x \in Q : x <= n}) = p}
  ELSE {n \in Q : Cardinality({x \in Q : x >= n}) = 0 - p}

\* The days a MONTHLY rule takes of month m.
DaysTaken(m) ==
  IF ParsedRule.hasBysetpos THEN Nth(QualifyingDays(m), ParsedRule.bysetpos)
  ELSE QualifyingDays(m)

AnchorMonth == call.dtStart.year * 12 + call.dtStart.month - 1

\* The dates a MONTHLY rule selects up to the end of the window: in each
\* month k * INTERVAL months after the anchor's, the days taken.
MonthlyRuleDays ==
  LET last == CivilFromDays(LastDay).year * 12 + CivilFromDays(LastDay).month - 1
  IN  UNION {DaysTaken(AnchorMonth + k * ParsedRule.interval) :
               k \in 0..((last - AnchorMonth) \div ParsedRule.interval)}

\* The string's month opens, at 00:00 UTC on its first day, after the window
\* closes.
MonthOpensAfterTo(str) ==
  DaysFromCivil(str.year, str.month, 1) * SecPerDay > ParseDate(call.to).t

\* C24: a MONTHLY rule returns occurrences on the days it takes of the months
\* k * INTERVAL after the anchor's month and on no other: in such a month the
\* days on a weekday of the set, ascending; with BYSETPOS = p > 0 the p-th of
\* them, with p < 0 the |p|-th from the end, none when the month has fewer
\* than |p|; without BYSETPOS all of them.  The output is the list of those
\* occurrences (from the anchor's instant, up to UNTIL and COUNT, in the
\* window, minus the exceptions) up to some point, and the whole list with
\* COUNT; what is lacking at the end is in a month that opens after the window
\* closes (the stop of C21).
C24_MonthlySelection ==
  (pc = "done" /\ ret.ok /\ ParsedRule.freq = "MONTHLY") =>
    LET every == OccurrencesOn(MonthlyRuleDays)
    IN  /\ Len(ret.out) <= Len(every)
        /\ ret.out = SubSeq(every, 1, Len(ret.out))
        /\ ParsedRule.hasCount => ret.out = every
        /\ \A i \in (Len(ret.out) + 1)..Len(every) : MonthOpensAfterTo(every[i])

\* A rule with BYSETPOS -5 has returned the first of the five days on the
\* anchor's weekday that the anchor's month has, in a window that reaches
\* over the month after, which has four and of which it returned nothing.
C24_Witness ==
  /\ pc = "done" /\ ret.ok /\ ParsedRule.freq = "MONTHLY"
  /\ ParsedRule.hasBysetpos /\ ParsedRule.bysetpos = -5
  /\ Cardinality(QualifyingDays(AnchorMonth)) = 5
  /\ Cardinality(QualifyingDays(AnchorMonth + 1)) = 4
  /\ ParseDate(call.to).t > DaysFromCivil(call.dtStart.year, call.dtStart.month + 2, 1)
                              * SecPerDay
  /\ Len(ret.out) = 1
  /\ ret.out[1].day <= 7

====
